---- MODULE Spec2Model ----
(***************************************************************************)
(* ecoChatServer: the lock-based connection hub (websocket/hub.go), the    *)
(* chat get-or-create transaction (database/queries/chat.go) and the       *)
(* message ingestion path (handlers/telegram_handler.go, the sendMessage   *)
(* handler, database/queries.go AddMessage).                               *)
(***************************************************************************)
EXTENDS Integers, Sequences, FiniteSets, TLC

(***************************************************************************)
(* Bounds of the model.                                                    *)
(***************************************************************************)
\* capacity of a connection's outbound queue (make(chan []byte, 256), scaled)
SendCap == 1
\* pending asynchronous evictions (cleanupClient goroutines) per connection
MaxCleanups == 1

(***************************************************************************)
(* Connections.  A *Client is identified by its pointer; ClientType, ID    *)
(* and ChatID are set once by NewClient and never change.                  *)
(***************************************************************************)
ClientTypeAdmin == "admin"
ClientTypeWidget == "widget"

\* uuid.Nil: the ChatID of an admin connection (ServeWs leaves it zero)
NilUUID == "00000000"

Conns == {"c1", "c2", "c3"}

NoClient == "none"

ClientType(c) == IF c \in {"c1", "c2"} THEN ClientTypeAdmin ELSE ClientTypeWidget

\* c1 and c2 are two sockets of the same administrator
ID(c) == IF c \in {"c1", "c2"} THEN "a1" ELSE "u1"

\* the widget c3 belongs to chat A; nobody is connected to chat B
ChatID(c) == IF c = "c3" THEN "A" ELSE NilUUID

\* uuid.UUID.String(): never the empty string, uuid.Nil included
UUIDString(u) == u

AdminIDs == {"a1", "a2"}
ChatIDs == {"A", "B", NilUUID}

\* frames handed to the hub: a broadcast, a chat-scoped frame, an admin frame
BroadcastFrame == [kind |-> "broadcast", to |-> "*"]
ChatFrame(chatID) == [kind |-> "chat", to |-> chatID]
AdminFrame(adminID) == [kind |-> "admin", to |-> adminID]

VARIABLES
    \* Hub (lock-based): the maps guarded by mu, and stats (TotalMessages, a
    \* counter that is only ever incremented and logged, is left out)
    clients, adminsByID, widgetsByID, chatClients, stats,
    \* Client.send: buffered channel contents, and whether it was closed
    send, closed,
    \* number of close(c.send) executed on each connection
    closes,
    \* goroutines: ServeWs position, the two pumps, pending cleanupClient
    serve, readPump, writePump, cleanups,
    \* SendToChat between its snapshot under RLock and its sends
    chatSend,
    \* a goroutine panicked (send on a closed channel, close of a closed channel)
    panicked,
    \* history: the connection registered last under each admin identity
    lastRegistered

hubVars == <<clients, adminsByID, widgetsByID, chatClients, stats, send, closed,
             closes, serve, readPump, writePump, cleanups, chatSend, panicked,
             lastRegistered>>

VARIABLES
    \* storage: committed rows of users, chats and messages; uuid.New() counter
    users, chats, messages, nextID,
    \* GetOrCreateChat: the transaction of each concurrent caller
    call,
    \* time.Now(), in seconds
    now,
    \* the sendMessage requests handled by processSendMessage
    wsReq,
    \* TelegramWebhook: the dedup map, its sweeper, and the submissions
    recentMessages, sweep, hook,
    \* the auto-responder: handlers.AutoResponder ("nil" or "on"), its
    \* history map, and a reply of the model on its way through the filter
    autoResponder, history, filt,
    \* the request handler of each connection, run by its ReadPump
    handler,
    \* AddMessage: the transaction of each concurrent caller
    addTx,
    \* the goroutine of processAutoResponse started by each sendMessage request
    auto,
    \* the last call of GetChats or MarkMessagesAsRead and what it returned
    view

storeVars == <<users, chats, messages, nextID>>

dedupVars == <<recentMessages, sweep, hook>>

llmVars == <<autoResponder, history, filt>>

taskVars == <<addTx, auto, view>>

VARIABLES
    \* Hub.mu (sync.RWMutex): the goroutine holding it for writing, and the
    \* goroutines holding it for reading
    mu,
    \* Hub.Run: the case of its select being executed
    loop,
    \* a goroutine outside the hub loop inside SendToAdmin or SendToChat
    caller

lockVars == <<mu, loop, caller>>

vars == <<hubVars, storeVars, call, now, wsReq, dedupVars, llmVars, handler, taskVars,
          lockVars>>

(***************************************************************************)
(* Go maps: a function whose DOMAIN is the set of keys present.            *)
(***************************************************************************)
EmptyMap == [k \in {} |-> {}]

MapPut(m, k, v) == [x \in DOMAIN m \cup {k} |-> IF x = k THEN v ELSE m[x]]

MapDelete(m, k) == [x \in DOMAIN m \ {k} |-> m[x]]

\* m[k] of a map of sets, the zero value (nil map: no members) when absent
MapGetSet(m, k) == IF k \in DOMAIN m THEN m[k] ELSE {}

\* delete(set, c); if len(set) == 0 { delete(m, k) }, when k is present
MapRemoveMember(m, k, c) ==
    IF k \notin DOMAIN m THEN m
    ELSE IF m[k] \ {c} = {} THEN MapDelete(m, k)
    ELSE MapPut(m, k, m[k] \ {c})

(***************************************************************************)
(* select { case c.send <- msg: default: }: whether the send case is ready *)
(***************************************************************************)
CanSend(c) == Len(send[c]) < SendCap

InitHub ==
    /\ clients = {}
    /\ adminsByID = EmptyMap
    /\ widgetsByID = EmptyMap
    /\ chatClients = EmptyMap
    /\ stats = [TotalConnections |-> 0, ActiveConnections |-> 0,
                DisconnectedClients |-> 0]
    /\ send = [c \in Conns |-> <<>>]
    /\ closed = [c \in Conns |-> FALSE]
    /\ closes = [c \in Conns |-> 0]
    /\ serve = [c \in Conns |-> "new"]
    /\ readPump = [c \in Conns |-> "idle"]
    /\ writePump = [c \in Conns |-> "idle"]
    /\ cleanups = [c \in Conns |-> 0]
    /\ chatSend = [active |-> FALSE, chatID |-> NilUUID, clients |-> {}]
    /\ panicked = FALSE
    /\ lastRegistered = [a \in AdminIDs |-> NoClient]


Min(a, b) == IF a < b THEN a ELSE b

\* registerClient with a first-wins admin index: an identity that is already
\* indexed keeps its old connection
registerClientKeepFirst(c) ==
    /\ clients' = clients \cup {c}
    /\ adminsByID' = IF ClientType(c) = ClientTypeAdmin
                        /\ UUIDString(ID(c)) \notin DOMAIN adminsByID
                     THEN MapPut(adminsByID, UUIDString(ID(c)), c)
                     ELSE adminsByID
    /\ widgetsByID' = IF ClientType(c) = ClientTypeWidget
                      THEN MapPut(widgetsByID, UUIDString(ChatID(c)),
                                  MapGetSet(widgetsByID, UUIDString(ChatID(c))) \cup {c})
                      ELSE widgetsByID
    /\ chatClients' = IF UUIDString(ChatID(c)) # ""
                      THEN MapPut(chatClients, UUIDString(ChatID(c)),
                                  MapGetSet(chatClients, UUIDString(ChatID(c))) \cup {c})
                      ELSE chatClients
    /\ stats' = [stats EXCEPT !.TotalConnections = @ + 1,
                              !.ActiveConnections = @ + 1]

(***************************************************************************)
(* Hub.registerClient: global set, kind index, chat index, counters.       *)
(***************************************************************************)
registerClient(c) ==
    /\ clients' = clients \cup {c}
    /\ adminsByID' = IF ClientType(c) = ClientTypeAdmin
                     THEN MapPut(adminsByID, UUIDString(ID(c)), c)
                     ELSE adminsByID
    /\ widgetsByID' = IF ClientType(c) = ClientTypeWidget
                      THEN MapPut(widgetsByID, UUIDString(ChatID(c)),
                                  MapGetSet(widgetsByID, UUIDString(ChatID(c))) \cup {c})
                      ELSE widgetsByID
    /\ chatClients' = IF UUIDString(ChatID(c)) # ""
                      THEN MapPut(chatClients, UUIDString(ChatID(c)),
                                  MapGetSet(chatClients, UUIDString(ChatID(c))) \cup {c})
                      ELSE chatClients
    /\ stats' = [stats EXCEPT !.TotalConnections = @ + 1,
                              !.ActiveConnections = @ + 1]

\* unregisterClient that only leaves the global set and closes the queue:
\* the indexes keep the connection
unregisterClientGlobalOnly(c) ==
    /\ clients' = clients \ {c}
    /\ closed' = IF c \in clients THEN [closed EXCEPT ![c] = TRUE] ELSE closed
    /\ closes' = IF c \in clients THEN [closes EXCEPT ![c] = @ + 1] ELSE closes
    /\ panicked' = (c \in clients /\ closed[c])
    /\ UNCHANGED <<adminsByID, widgetsByID, chatClients>>
    /\ stats' = [stats EXCEPT !.ActiveConnections = @ - 1,
                              !.DisconnectedClients = @ + 1]

\* unregisterClient that forgets the chat index: the connection leaves the
\* global set and its kind index only
unregisterClientKindIndexOnly(c) ==
    /\ clients' = clients \ {c}
    /\ closed' = IF c \in clients THEN [closed EXCEPT ![c] = TRUE] ELSE closed
    /\ closes' = IF c \in clients THEN [closes EXCEPT ![c] = @ + 1] ELSE closes
    /\ panicked' = (c \in clients /\ closed[c])
    /\ adminsByID' = IF ClientType(c) = ClientTypeAdmin
                     THEN MapDelete(adminsByID, UUIDString(ID(c)))
                     ELSE adminsByID
    /\ widgetsByID' = IF ClientType(c) = ClientTypeWidget
                      THEN MapRemoveMember(widgetsByID, UUIDString(ChatID(c)), c)
                      ELSE widgetsByID
    /\ chatClients' = chatClients
    /\ stats' = [stats EXCEPT !.ActiveConnections = @ - 1,
                              !.DisconnectedClients = @ + 1]

(***************************************************************************)
(* Hub.unregisterClient: the close is guarded by membership in clients,    *)
(* the index deletions and the counters are not.                           *)
(***************************************************************************)
unregisterClient(c) ==
    /\ clients' = clients \ {c}
    /\ closed' = IF c \in clients THEN [closed EXCEPT ![c] = TRUE] ELSE closed
    /\ closes' = IF c \in clients THEN [closes EXCEPT ![c] = @ + 1] ELSE closes
    \* close of a closed channel panics
    /\ panicked' = (c \in clients /\ closed[c])
    /\ adminsByID' = IF ClientType(c) = ClientTypeAdmin
                     THEN MapDelete(adminsByID, UUIDString(ID(c)))
                     ELSE adminsByID
    /\ widgetsByID' = IF ClientType(c) = ClientTypeWidget
                      THEN MapRemoveMember(widgetsByID, UUIDString(ChatID(c)), c)
                      ELSE widgetsByID
    /\ chatClients' = IF UUIDString(ChatID(c)) # ""
                      THEN MapRemoveMember(chatClients, UUIDString(ChatID(c)), c)
                      ELSE chatClients
    /\ stats' = [stats EXCEPT !.ActiveConnections = @ - 1,
                              !.DisconnectedClients = @ + 1]

(***************************************************************************)
(* Hub.cleanupClient: a goroutine that sleeps and then sends the client on *)
(* Unregister.  At most MaxCleanups of them are tracked per connection.    *)
(***************************************************************************)
cleanupClient(cs) ==
    cleanups' = [c \in Conns |-> IF c \in cs THEN Min(cleanups[c] + 1, MaxCleanups)
                                 ELSE cleanups[c]]

\* broadcastMessage with a plain blocking send (client.send <- msg): it can
\* proceed only when every member of clients has room
broadcastMessageBlocking(msg) ==
    /\ \A c \in clients : CanSend(c)
    /\ send' = [c \in Conns |-> IF c \in clients THEN Append(send[c], msg) ELSE send[c]]
    /\ UNCHANGED cleanups

(***************************************************************************)
(* Hub.broadcastMessage: a non-blocking send to every member of clients;   *)
(* the members whose queue is full are handed to cleanupClient after the   *)
(* lock is released.                                                       *)
(***************************************************************************)
broadcastMessage(msg) ==
    LET disconnected == {c \in clients : ~CanSend(c)}
    IN  /\ send' = [c \in Conns |-> IF c \in clients /\ CanSend(c)
                                    THEN Append(send[c], msg) ELSE send[c]]
        /\ cleanupClient(disconnected)

(***************************************************************************)
(* ServeWs: Register <- client, then the two pumps are started.  The hub   *)
(* loop (Hub.Run) is the other side of the channel operation.              *)
(***************************************************************************)
ServeWs(c) ==
    /\ ~panicked
    /\ serve[c] = "new"
    /\ registerClient(c)
    /\ serve' = [serve EXCEPT ![c] = "open"]
    /\ readPump' = [readPump EXCEPT ![c] = "run"]
    /\ writePump' = [writePump EXCEPT ![c] = "run"]
    /\ lastRegistered' = IF ClientType(c) = ClientTypeAdmin
                         THEN [lastRegistered EXCEPT ![ID(c)] = c]
                         ELSE lastRegistered
    /\ UNCHANGED <<send, closed, closes, cleanups, chatSend, panicked>>

\* Hub.BroadcastMessage (SendConnectionStatus at the end of ServeWs, or a
\* request handler) -> Run -> broadcastMessage
BroadcastMessage ==
    /\ ~panicked
    /\ broadcastMessage(BroadcastFrame)
    /\ UNCHANGED <<clients, adminsByID, widgetsByID, chatClients, stats, closed,
                   closes, serve, readPump, writePump, chatSend, panicked,
                   lastRegistered>>

(***************************************************************************)
(* The pumps.  Each ends with Unregister <- c in its deferred function.    *)
(***************************************************************************)
\* ReadPump: ReadMessage fails, the deferred function unregisters
ReadPumpExit(c) ==
    /\ ~panicked
    /\ readPump[c] = "run"
    /\ unregisterClient(c)
    /\ readPump' = [readPump EXCEPT ![c] = "done"]
    /\ UNCHANGED <<send, serve, writePump, cleanups, chatSend, lastRegistered>>

\* WritePump: one message is received and the queue is flushed with it
WritePumpDrain(c) ==
    /\ ~panicked
    /\ writePump[c] = "run"
    /\ send[c] # <<>>
    /\ send' = [send EXCEPT ![c] = <<>>]
    /\ UNCHANGED <<clients, adminsByID, widgetsByID, chatClients, stats, closed,
                   closes, serve, readPump, writePump, cleanups, chatSend,
                   panicked, lastRegistered>>

\* WritePump: a write fails, or the queue is closed and empty
WritePumpExit(c) ==
    /\ ~panicked
    /\ writePump[c] = "run"
    /\ unregisterClient(c)
    /\ writePump' = [writePump EXCEPT ![c] = "done"]
    /\ UNCHANGED <<send, serve, readPump, cleanups, chatSend, lastRegistered>>

\* the goroutine of cleanupClient wakes up: Unregister <- client
CleanupUnregister(c) ==
    /\ ~panicked
    /\ cleanups[c] > 0
    /\ unregisterClient(c)
    /\ cleanups' = [cleanups EXCEPT ![c] = @ - 1]
    /\ UNCHANGED <<send, serve, readPump, writePump, chatSend, lastRegistered>>

(***************************************************************************)
(* Hub.SendToAdmin: under RLock, the connection of that identity, if any.  *)
(***************************************************************************)
AdminTarget(adminID) ==
    IF adminID \in DOMAIN adminsByID THEN adminsByID[adminID] ELSE NoClient

SendToAdmin(adminID) ==
    /\ ~panicked
    /\ LET c == AdminTarget(adminID)
       IN  IF c = NoClient
           THEN UNCHANGED <<send, cleanups, panicked>>
           ELSE IF closed[c]
           THEN /\ panicked' = TRUE
                /\ UNCHANGED <<send, cleanups>>
           ELSE IF CanSend(c)
           THEN /\ send' = [send EXCEPT ![c] = Append(@, AdminFrame(adminID))]
                /\ UNCHANGED <<cleanups, panicked>>
           ELSE /\ cleanupClient({c})
                /\ UNCHANGED <<send, panicked>>
    /\ UNCHANGED <<clients, adminsByID, widgetsByID, chatClients, stats, closed,
                   closes, serve, readPump, writePump, chatSend, lastRegistered>>

(***************************************************************************)
(* Hub.SendToChat: the members of chatClients[chatID] are copied under     *)
(* RLock; the sends happen after the lock is released.                     *)
(***************************************************************************)
\* a snapshot that ignores the key: the members of every chat
ChatSnapshotAllChats(chatID) == UNION {chatClients[k] : k \in DOMAIN chatClients}

ChatSnapshot(chatID) == MapGetSet(chatClients, chatID)

SendToChatSnapshot(chatID) ==
    /\ ~panicked
    /\ ~chatSend.active
    \* with nothing copied the loop over the copy does nothing: the call is over
    /\ ChatSnapshot(chatID) # {}
    /\ chatSend' = [active |-> TRUE, chatID |-> chatID, clients |-> ChatSnapshot(chatID)]
    /\ UNCHANGED <<clients, adminsByID, widgetsByID, chatClients, stats, send,
                   closed, closes, serve, readPump, writePump, cleanups, panicked,
                   lastRegistered>>

SendToChatDeliver ==
    /\ ~panicked
    /\ chatSend.active
    /\ IF \E c \in chatSend.clients : closed[c]
       THEN \* send on a closed channel
            /\ panicked' = TRUE
            /\ UNCHANGED <<send, cleanups>>
       ELSE /\ send' = [c \in Conns |->
                          IF c \in chatSend.clients /\ CanSend(c)
                          THEN Append(send[c], ChatFrame(chatSend.chatID))
                          ELSE send[c]]
            /\ cleanupClient({c \in chatSend.clients : ~CanSend(c)})
            /\ UNCHANGED panicked
    /\ chatSend' = [active |-> FALSE, chatID |-> NilUUID, clients |-> {}]
    /\ UNCHANGED <<clients, adminsByID, widgetsByID, chatClients, stats, closed,
                   closes, serve, readPump, writePump, lastRegistered>>

(***************************************************************************)
(* Storage.  PostgreSQL (lib/pq), transactions opened with BeginTx(ctx,    *)
(* nil): READ COMMITTED, every statement sees the rows committed before it *)
(* and the rows its own transaction wrote.  The schema (database/db.go)    *)
(* has primary keys on id and no unique constraint over users(source,      *)
(* source_id) or chats(user_id, source, bot_id, client_id).                *)
(***************************************************************************)
NoRow == [id |-> "none"]

\* concurrent callers of GetOrCreateChat
NumCallers == 2

Callers == 1..NumCallers

\* uuid.Parse succeeds on these strings
IsUUID(str) == str \in {"U9", "K1", "A", "B", "Z", "a1", "u1x", NilUUID}

UserIDs == {"u1", "U9"}
BotIDs == {"b1", "b2"}
Source == "telegram"
ClientKey == "K1"

Requests == [userID : UserIDs, source : {Source}, botID : BotIDs, clientAPIKey : {ClientKey}]

\* uuid.New(): a value nobody has seen before
FreshUUID == ToString(nextID)

IdleCall == [pc |-> "idle", req |-> NoRow, userID |-> "none", chatID |-> "none",
             newUser |-> NoRow, newChat |-> NoRow, result |-> "none",
             assignedTo |-> "none"]

InitStore ==
    /\ users \in {{}, {[id |-> "U0", source |-> Source, sourceID |-> "u1"]}}
    /\ chats = {}
    /\ messages = <<>>
    /\ nextID = 1

\* getClientUUIDByAPIKey for a key that is itself a UUID: returned as it is,
\* without touching the clients table
getClientUUIDByAPIKey(apiKey) == apiKey

\* the user rows SELECT ... WHERE source=$1 AND source_id=$2 can return to p
VisibleUsers(p) ==
    {u \in users \cup ({call[p].newUser} \ {NoRow}) :
        u.source = call[p].req.source /\ u.sourceID = call[p].req.userID}

\* the chat rows SELECT id FROM chats WHERE user_id=$1 AND source=$2 AND
\* bot_id=$3 AND client_id=$4 can return to p
VisibleChats(p) ==
    {c \in chats \cup ({call[p].newChat} \ {NoRow}) :
        /\ c.userID = call[p].userID
        /\ c.source = call[p].req.source
        /\ c.botID = call[p].req.botID
        /\ c.clientID = getClientUUIDByAPIKey(call[p].req.clientAPIKey)}

\* GetOrCreateChat: BeginTx
BeginChatTx(p, req) ==
    /\ call[p].pc = "idle"
    /\ call' = [call EXCEPT ![p] = [@ EXCEPT !.pc = "selectUser", !.req = req]]
    /\ UNCHANGED storeVars

\* getOrCreateUser: SELECT ... FROM users ... LIMIT 1
SelectUser(p) ==
    /\ call[p].pc = "selectUser"
    /\ IF VisibleUsers(p) = {}
       THEN call' = [call EXCEPT ![p].pc = "insertUser"]
       ELSE \E u \in VisibleUsers(p) :
                call' = [call EXCEPT ![p] = [@ EXCEPT !.pc = "selectChat", !.userID = u.id]]
    /\ UNCHANGED storeVars

\* getOrCreateUser: INSERT INTO users; the id is the caller's userID when that
\* parses as a UUID, a new UUID otherwise.  A duplicate primary key waits for
\* the transaction that holds it and fails once that one has committed.
InsertUser(p) ==
    /\ call[p].pc = "insertUser"
    /\ LET id == IF IsUUID(call[p].req.userID) THEN call[p].req.userID ELSE FreshUUID
           row == [id |-> id, source |-> call[p].req.source, sourceID |-> call[p].req.userID]
       IN  /\ \A q \in Callers \ {p} : call[q].newUser.id # id
           /\ IF \E u \in users : u.id = id
              THEN call' = [call EXCEPT ![p] = [@ EXCEPT !.pc = "done", !.result = "error",
                                                         !.newUser = NoRow, !.newChat = NoRow]]
              ELSE call' = [call EXCEPT ![p] = [@ EXCEPT !.pc = "selectChat", !.userID = id,
                                                         !.newUser = row]]
    /\ nextID' = nextID + 1
    /\ UNCHANGED <<users, chats, messages>>

\* SELECT id FROM chats WHERE ... LIMIT 1
SelectChat(p) ==
    /\ call[p].pc = "selectChat"
    /\ IF VisibleChats(p) = {}
       THEN call' = [call EXCEPT ![p].pc = "insertChat"]
       ELSE \E c \in VisibleChats(p) :
                call' = [call EXCEPT ![p] = [@ EXCEPT !.pc = "commit", !.chatID = c.id]]
    /\ UNCHANGED storeVars

\* err == sql.ErrNoRows: chatID = uuid.New(); INSERT INTO chats
InsertChat(p) ==
    /\ call[p].pc = "insertChat"
    /\ call' = [call EXCEPT ![p] =
                  [@ EXCEPT !.pc = "commit", !.chatID = FreshUUID,
                            !.newChat = [id |-> FreshUUID, userID |-> call[p].userID,
                                         updatedAt |-> now,
                                         assignedTo |-> "none",
                                         source |-> call[p].req.source,
                                         botID |-> call[p].req.botID,
                                         clientID |-> getClientUUIDByAPIKey(call[p].req.clientAPIKey)]]]
    /\ nextID' = nextID + 1
    /\ UNCHANGED <<users, chats, messages>>

\* tx.Commit: the rows written by the transaction become visible
CommitChatTx(p) ==
    /\ call[p].pc = "commit"
    /\ users' = users \cup ({call[p].newUser} \ {NoRow})
    /\ chats' = chats \cup ({call[p].newChat} \ {NoRow})
    /\ call' = [call EXCEPT ![p] = [@ EXCEPT !.pc = "fetch", !.newUser = NoRow, !.newChat = NoRow]]
    /\ UNCHANGED <<messages, nextID>>

\* GetChatByID(db, chatID, 1, DefaultPageSize): what the caller gets back,
\* the chat with its assigned_to as it is now
FetchChat(p) ==
    /\ call[p].pc = "fetch"
    /\ call' = [call EXCEPT ![p] =
                  IF \E c \in chats : c.id = call[p].chatID
                  THEN [@ EXCEPT !.pc = "done", !.result = call[p].chatID,
                                 !.assignedTo =
                                     (CHOOSE c \in chats : c.id = call[p].chatID).assignedTo]
                  ELSE [@ EXCEPT !.pc = "done", !.result = "error"]]
    /\ UNCHANGED storeVars

\* a statement or the commit fails (timeout, connection): deferred Rollback
FailChatTx(p) ==
    /\ call[p].pc \in {"selectUser", "insertUser", "selectChat", "insertChat", "commit"}
    /\ call' = [call EXCEPT ![p] = [@ EXCEPT !.pc = "done", !.result = "error",
                                               !.newUser = NoRow, !.newChat = NoRow]]
    /\ UNCHANGED storeVars

(***************************************************************************)
(* AddMessage and the sendMessage handler of the WebSocket endpoint.       *)
(***************************************************************************)
\* how many successive attempts of the AddMessage transaction the store
\* decides in advance
PlanLen == 3

\* what the store does to one attempt: it commits; BeginTx or the existence
\* check fails; the INSERT fails on a partition being created or migrated;
\* the INSERT, the UPDATE or the Commit fails for another reason
AttemptOutcomes == {"ok", "unavailable", "partition_conflict", "error"}

\* the schedules of the store.  Attempts after the first one that is not a
\* partition conflict are never looked at, they are fixed to "ok".
Plans ==
    {plan \in [1..PlanLen -> AttemptOutcomes] :
        \A k \in 1..(PlanLen - 1) : plan[k] # "partition_conflict" => plan[k + 1] = "ok"}

NoPlan == <<>>

NoMessage == [id |-> "none"]

ChatExists(chatID) == \E c \in chats : c.id = chatID

\* the metadata column: the keys of the map that are set to true; a nil map
\* and an empty one are stored alike
NoMeta == {}

\* AddMessage with the error of the INSERT dropped: the call goes on to success
AddMessageIgnoresInsertError(chatID, content, sender, senderID, meta, plan) ==
    LET row == [id |-> FreshUUID, chatID |-> chatID, content |-> content,
                sender |-> sender, senderID |-> senderID, timestamp |-> now,
                read |-> FALSE, metadata |-> meta]
    IN  CASE plan[1] = "unavailable" ->
               [err |-> "begin tx", message |-> NoMessage, attempts |-> 1]
          [] ~ChatExists(chatID) ->
               [err |-> "chat not found", message |-> NoMessage, attempts |-> 1]
          [] OTHER ->
               [err |-> "nil", message |-> row, attempts |-> 1]

\* The result of AddMessage: one transaction, returned at its first error.
\* err = "nil" carries the message row to insert.
AddMessage(chatID, content, sender, senderID, meta, plan) ==
    LET row == [id |-> FreshUUID, chatID |-> chatID, content |-> content,
                sender |-> sender, senderID |-> senderID, timestamp |-> now,
                read |-> FALSE, metadata |-> meta]
    IN  CASE plan[1] = "unavailable" ->
               [err |-> "begin tx", message |-> NoMessage, attempts |-> 1]
          [] ~ChatExists(chatID) ->
               [err |-> "chat not found", message |-> NoMessage, attempts |-> 1]
          [] plan[1] = "partition_conflict" ->
               [err |-> "partition_conflict", message |-> NoMessage, attempts |-> 1]
          [] plan[1] = "error" ->
               [err |-> "error", message |-> NoMessage, attempts |-> 1]
          [] OTHER ->
               [err |-> "nil", message |-> row, attempts |-> 1]

\* What AddMessage leaves in the store: the committed transaction inserts the
\* row and sets updated_at of its chat, a failed one is rolled back.
StoreAfter(res) ==
    /\ messages' = IF res.err = "nil" THEN Append(messages, res.message) ELSE messages
    /\ chats' = IF res.err = "nil"
                THEN {IF c.id = res.message.chatID
                      THEN [c EXCEPT !.updatedAt = res.message.timestamp] ELSE c : c \in chats}
                ELSE chats
    /\ nextID' = IF res.err = "nil" THEN nextID + 1 ELSE nextID
    /\ UNCHANGED users

\* AddMessage statement by statement, for callers that run concurrently.
\* The rows a transaction has written are its own until tx.Commit.
NumAddCallers == 2

AddCallers == 1..NumAddCallers

\* the arguments of an AddMessage call
AddArgs == [chatID : {"A", "Z"}, content : {"hi"}, sender : {"user", "admin"}]

IdleAddTx == [pc |-> "idle", args |-> NoRow, newMessage |-> NoMessage,
              updatedAt |-> -1, failedAt |-> "none", err |-> "none"]

\* db.BeginTx
BeginAddTx(p, args) ==
    /\ addTx[p].pc = "idle"
    /\ addTx' = [addTx EXCEPT ![p] = [@ EXCEPT !.pc = "exists", !.args = args]]
    /\ UNCHANGED <<storeVars, now>>

\* SELECT EXISTS(SELECT 1 FROM chats WHERE id=$1)
AddTxExists(p) ==
    /\ addTx[p].pc = "exists"
    /\ addTx' = [addTx EXCEPT ![p] =
                   IF ChatExists(addTx[p].args.chatID)
                   THEN [@ EXCEPT !.pc = "insert"]
                   ELSE [@ EXCEPT !.pc = "done", !.err = "chat not found",
                                  !.failedAt = "exists"]]
    /\ UNCHANGED <<storeVars, now>>

\* now := time.Now(); msgID := uuid.New(); INSERT INTO messages
AddTxInsert(p) ==
    /\ addTx[p].pc = "insert"
    /\ addTx' = [addTx EXCEPT ![p] =
                   [@ EXCEPT !.pc = "update",
                             !.newMessage =
                                 [id |-> FreshUUID, chatID |-> addTx[p].args.chatID,
                                  content |-> addTx[p].args.content,
                                  sender |-> addTx[p].args.sender,
                                  senderID |-> NilUUID, timestamp |-> now,
                                  read |-> FALSE, metadata |-> NoMeta]]]
    /\ nextID' = nextID + 1
    /\ UNCHANGED <<users, chats, messages, now>>

\* UPDATE chats SET updated_at=$1 WHERE id=$2; the row stays locked by the
\* transaction that updated it first until that one ends
AddTxUpdate(p) ==
    /\ addTx[p].pc = "update"
    /\ \A q \in AddCallers \ {p} :
           addTx[q].pc = "commit" => addTx[q].args.chatID # addTx[p].args.chatID
    /\ addTx' = [addTx EXCEPT ![p] =
                   [@ EXCEPT !.pc = "commit", !.updatedAt = addTx[p].newMessage.timestamp]]
    /\ UNCHANGED <<storeVars, now>>

\* a failed AddMessage with the INSERT left in the table, as it would be
\* without a transaction around the statements
AddTxFailKeepsInsert(p) ==
    /\ addTx[p].pc \in {"exists", "insert", "update", "commit"}
    /\ addTx' = [addTx EXCEPT ![p] =
                   [@ EXCEPT !.pc = "done", !.err = "error", !.failedAt = addTx[p].pc]]
    /\ messages' = IF addTx[p].newMessage # NoMessage
                   THEN Append(messages, addTx[p].newMessage) ELSE messages
    /\ UNCHANGED <<users, chats, nextID, now>>

\* tx.Commit: the message row and the new updated_at become visible together
AddTxCommit(p) ==
    /\ addTx[p].pc = "commit"
    /\ messages' = Append(messages, addTx[p].newMessage)
    /\ chats' = {IF c.id = addTx[p].args.chatID
                 THEN [c EXCEPT !.updatedAt = addTx[p].updatedAt] ELSE c : c \in chats}
    /\ addTx' = [addTx EXCEPT ![p] = [@ EXCEPT !.pc = "done", !.err = "nil"]]
    /\ UNCHANGED <<users, nextID, now>>

\* a statement or the commit fails, or the context times out: the error is
\* returned and the deferred tx.Rollback drops what the transaction wrote
AddTxFail(p) ==
    /\ addTx[p].pc \in {"exists", "insert", "update", "commit"}
    /\ addTx' = [addTx EXCEPT ![p] =
                   [@ EXCEPT !.pc = "done", !.err = "error", !.failedAt = addTx[p].pc]]
    /\ UNCHANGED <<storeVars, now>>

NumWsRequests == 2

WsRequests == 1..NumWsRequests

\* the payloads of a sendMessage envelope
WsPayloads == [chatID : {"A", "Z", ""}, content : {"hi", ""}, metadata : {NoMeta}]

NewWsReq == [pc |-> "new", client |-> NoClient, payload |-> NoRow, plan |-> NoPlan,
             attempts |-> 0, reply |-> "none", messageID |-> "none", calls |-> <<>>,
             assignedTo |-> "none"]

\* processSendMessage through an AddMessage that failed: SendError("db_error")
\* and return; before it, the validation of the payload
processSendMessage(j, c, p, plan, chatFetched) ==
    /\ wsReq[j].pc = "new"
    /\ \A q \in WsRequests : wsReq[q].pc # "panic"
    /\ IF p.chatID = "" \/ p.content = ""
       THEN /\ wsReq' = [wsReq EXCEPT ![j] = [@ EXCEPT !.pc = "done", !.client = c,
                                     !.payload = p, !.reply = "missing_fields"]]
            /\ UNCHANGED storeVars
       ELSE IF ~IsUUID(p.chatID)
       THEN /\ wsReq' = [wsReq EXCEPT ![j] = [@ EXCEPT !.pc = "done", !.client = c,
                                     !.payload = p, !.reply = "invalid_uuid"]]
            /\ UNCHANGED storeVars
       ELSE LET sender == IF ClientType(c) = ClientTypeAdmin THEN "admin" ELSE "user"
                res == AddMessage(p.chatID, p.content, sender, ID(c), p.metadata, plan)
            IN  /\ StoreAfter(res)
                /\ IF res.err # "nil"
                   THEN wsReq' = [wsReq EXCEPT ![j] =
                            [@ EXCEPT !.pc = "done", !.client = c, !.payload = p,
                                      !.plan = plan, !.attempts = res.attempts,
                                      !.reply = "db_error"]]
                   ELSE IF ~chatFetched
                   THEN \* GetChatByID failed: NewChatMessage reads chat.ID of
                        \* the nil chat, the goroutine of ReadPump panics
                        wsReq' = [wsReq EXCEPT ![j] =
                            [@ EXCEPT !.pc = "panic", !.client = c, !.payload = p,
                                      !.plan = plan, !.attempts = res.attempts,
                                      !.messageID = res.message.id]]
                   ELSE wsReq' = [wsReq EXCEPT ![j] =
                            [@ EXCEPT !.pc = "done", !.client = c, !.payload = p,
                                      !.plan = plan, !.attempts = res.attempts,
                                      !.reply = "messageSent",
                                      !.messageID = res.message.id,
                                      !.assignedTo =
                                          (CHOOSE x \in chats : x.id = p.chatID).assignedTo,
                                      !.calls = <<"BroadcastMessage">>
                                          \o (IF sender = "admin" THEN <<"SendToChat">> ELSE <<>>)
                                          \o (IF sender = "user" /\ autoResponder # "nil"
                                              THEN <<"processAutoResponse">> ELSE <<>>)]]
    /\ UNCHANGED now

(***************************************************************************)
(* The self-identification filter of the auto-responder (llm/sanitizer.go).*)
(* A text is a sequence of runes; a rune is named by its letter when it is *)
(* ASCII and by its code point otherwise: U+0431, U+043E, U+0442 are the   *)
(* Cyrillic small letters be, o, te; U+1C82 is the Cyrillic small letter   *)
(* narrow o, whose simple case folding is U+043E.                          *)
(***************************************************************************)
\* longest reply of the language model
MaxReplyLen == 5

Runes == {"a", "A", "i", " ", "U+0431", "U+043E", "U+1C82", "U+0442"}

\* forbiddenTerms, two of its entries, in the order of the list
forbiddenTerms == << <<"U+0431", "U+043E", "U+0442">>, <<"a", "i">> >>

\* the fixed sentence that replaces an escalated reply
HandOffSentence == <<"Pozvolte podklyuchit nashego starshego spetsialista. Odnu minutku, pozhaluysta.">>

\* unicode.ToLower: U+1C82 is a lower-case letter already
ToLowerRune(r) == IF r = "A" THEN "a" ELSE r

\* the text as it is, letter case kept
KeepCase(s) == s

\* strings.ToLower
ToLower(s) == [k \in 1..Len(s) |-> ToLowerRune(s[k])]

\* strings.Contains
Contains(s, t) ==
    \E k \in 1..(Len(s) - Len(t) + 1) : SubSeq(s, k, k + Len(t) - 1) = t

\* the orbit of a rune under unicode.SimpleFold, which (?i) matches
SimpleFold(r) ==
    CASE r \in {"a", "A"} -> {"a", "A"}
      [] r \in {"U+043E", "U+1C82"} -> {"U+043E", "U+1C82"}
      [] OTHER -> {r}

\* \w of RE2: ASCII letters, digits and the underscore
IsWordRune(r) == r \in {"a", "A", "i"}

\* \b before position k of s: a word rune on exactly one side
WordBoundary(s, k) ==
    (k > 1 /\ IsWordRune(s[k - 1])) # (k <= Len(s) /\ IsWordRune(s[k]))

\* (?i)\bterm\b matches s at position k
MatchAt(s, term, k) ==
    /\ k + Len(term) - 1 <= Len(s)
    /\ WordBoundary(s, k)
    /\ \A n \in 1..Len(term) : s[k + n - 1] \in SimpleFold(term[n])
    /\ WordBoundary(s, k + Len(term))

RECURSIVE ReplaceFrom(_, _, _)
\* ReplaceAllString(resp, ""): the matches found from position k on, left to
\* right and without overlap, are removed
ReplaceFrom(s, term, k) ==
    IF k > Len(s) THEN <<>>
    ELSE IF MatchAt(s, term, k) THEN ReplaceFrom(s, term, k + Len(term))
         ELSE <<s[k]>> \o ReplaceFrom(s, term, k + 1)

RECURSIVE StripTerms(_, _)
\* the second loop of sanitize: one ReplaceAllString for each of the first n
\* terms, in the order of the list
StripTerms(s, n) ==
    IF n = 0 THEN s
    ELSE ReplaceFrom(StripTerms(s, n - 1), forbiddenTerms[n], 1)

RECURSIVE TrimLeft(_)
TrimLeft(s) == IF s # <<>> /\ Head(s) = " " THEN TrimLeft(Tail(s)) ELSE s

RECURSIVE TrimRight(_)
TrimRight(s) ==
    IF s # <<>> /\ s[Len(s)] = " " THEN TrimRight(SubSeq(s, 1, Len(s) - 1)) ELSE s

\* strings.TrimSpace
TrimSpace(s) == TrimRight(TrimLeft(s))

\* sanitize(resp): escalate when the lower-cased reply contains a term, else
\* the reply with the word matches of the terms removed, trimmed
sanitize(resp) ==
    IF \E n \in 1..Len(forbiddenTerms) : Contains(ToLower(resp), forbiddenTerms[n])
    THEN [clean |-> <<>>, escalate |-> TRUE]
    ELSE [clean |-> TrimSpace(StripTerms(resp, Len(forbiddenTerms))), escalate |-> FALSE]

\* ProcessMessage, from the reply of the model to the content of the message
filterReply(rawResp) ==
    LET s == sanitize(rawResp)
    IN  [content |-> IF s.escalate THEN HandOffSentence ELSE s.clean,
         escalate |-> s.escalate]

RECURSIVE String(_)
\* string(runes): the text as the content column stores it
String(s) == IF s = <<>> THEN "" ELSE Head(s) \o String(Tail(s))

\* the replies of the model, up to MaxReplyLen runes
RECURSIVE TextsOfLen(_)
TextsOfLen(n) ==
    IF n = 0 THEN {<<>>}
    ELSE {Append(s, r) : s \in TextsOfLen(n - 1), r \in Runes}

Replies == UNION {TextsOfLen(n) : n \in 0..MaxReplyLen}

NoFilter == [pc |-> "idle", rawResp |-> <<>>, content |-> <<>>, escalate |-> FALSE]

\* GenerateResponse has returned rawResp: the filter is applied to it
FilterReply ==
    /\ filt.pc = "raw"
    /\ LET f == filterReply(filt.rawResp)
       IN  filt' = [filt EXCEPT !.pc = "done", !.content = f.content,
                                !.escalate = f.escalate]

(***************************************************************************)
(* TelegramWebhook: deduplication in front of GetOrCreateChat and          *)
(* AddMessage.  Every submission is a request handled by its own           *)
(* goroutine; submission i runs GetOrCreateChat as caller i.               *)
(***************************************************************************)
\* the clock stops here
MaxTime == 11

\* isRecentMessage: 5*time.Second
DedupTTL == 5

\* time.Now().Unix()/10
BucketWidth == 10

\* cleanupRecentMessages: entries older than 10*time.Second are deleted
SweepAge == 10

\* cleanupRecentMessages: time.NewTicker(30 * time.Second)
SweepInterval == 30

Hooks == Callers

HookUsers == {"u1", ""}

HookContents == {"hi", "yo"}

HookBot == "b1"

\* fmt.Sprintf("%s_%s_%d", in.UserID, in.Content, time.Now().Unix()/10)
MessageHash(userID, content, t) == <<userID \o "_" \o content, t \div BucketWidth>>

\* uuid.NewSHA1(uuid.NameSpaceOID, []byte(in.UserID)): the same for the same name
NewSHA1(name) == "sha1-" \o name

NewHook == [pc |-> "new", userID |-> "none", content |-> "none", hash |-> <<>>,
            at |-> 0, after |-> {}, result |-> "none", messageID |-> "none",
            assigned |-> {}, botMessageID |-> "none", metadata |-> NoMeta,
            calls |-> <<>>, llm |-> "none"]

InitDedup ==
    /\ recentMessages = EmptyMap
    /\ sweep \in {"off", "due"}
    /\ hook = [i \in Hooks |-> NewHook]

Done(i) == hook[i].pc = "done"

\* isRecentMessage without the age test: an entry is never too old
isRecentMessageNoTTL(hash) == hash \in DOMAIN recentMessages

isRecentMessage(hash) ==
    hash \in DOMAIN recentMessages /\ now - recentMessages[hash] < DedupTTL

\* recentMessages.Store(hash, time.Now())
registerMessage(hash) == MapPut(recentMessages, hash, now)

\* createChatNotification and WebSocketHub.SendToChat(chat.ID.String(), ...):
\* one chat_update frame with the user message and, when botMsg is not nil,
\* the bot message ("none": botMsg is nil)
ChatNotification(chatID, userMessageID, botMessageID) ==
    [op |-> "SendToChat", chatID |-> chatID, type |-> "chat_update",
     userMessage |-> userMessageID, botMessage |-> botMessageID]

\* the chats that an operator has taken, as the store has them now
AssignedChats == {c.id : c \in {x \in chats : x.assignedTo \notin {"none", NilUUID}}}

\* TelegramWebhook up to the duplicate check: 400 without a UserID, 200
\* duplicate_ignored for a recent fingerprint
TelegramWebhook(i, userID, content, meta) ==
    /\ hook[i].pc = "new"
    /\ LET hash == MessageHash(userID, content, now)
           h == [hook[i] EXCEPT !.userID = userID, !.content = content, !.hash = hash,
                                !.metadata = meta,
                                !.at = now, !.after = {k \in Hooks : Done(k)},
                                !.assigned = AssignedChats]
       IN  hook' = [hook EXCEPT ![i] =
               IF userID = "" THEN [NewHook EXCEPT !.pc = "done", !.result = "bad_request"]
               ELSE IF isRecentMessage(hash)
                    THEN [h EXCEPT !.pc = "done", !.result = "duplicate_ignored"]
                    ELSE [h EXCEPT !.pc = "register"]]
    /\ UNCHANGED <<recentMessages, sweep, storeVars, call, now>>

\* registerMessage(messageHash); the first one starts cleanupRecentMessages,
\* whose first tick is SweepInterval away
WebhookRegister(i) ==
    /\ hook[i].pc = "register"
    /\ recentMessages' = registerMessage(hook[i].hash)
    /\ sweep' = IF sweep = "off" THEN "later" ELSE sweep
    /\ hook' = [hook EXCEPT ![i] = [@ EXCEPT !.pc = "chat", !.at = now]]
    /\ UNCHANGED <<storeVars, call, now>>

\* database.GetOrCreateChat(in.UserID, ..., in.Source, in.UserID, in.BotID, in.ClientID)
WebhookGetOrCreateChat(i) ==
    /\ hook[i].pc = "chat"
    /\ BeginChatTx(i, [userID |-> hook[i].userID, source |-> Source, botID |-> HookBot,
                       clientAPIKey |-> ClientKey])
    /\ hook' = [hook EXCEPT ![i].pc = "add"]
    /\ UNCHANGED <<recentMessages, sweep, now>>

\* GetOrCreateChat has returned: 500 on its error, else AddMessage of the user
\* message, 500 on its error, else 200 "message processed" after the
\* notification of the chat when AutoResponder == nil, else on to the
\* auto-responder.  UpdateChatTimestamp writes the time AddMessage wrote.
WebhookAddMessage(i, plan) ==
    /\ hook[i].pc = "add"
    /\ call[i].pc = "done"
    /\ IF call[i].result = "error"
       THEN /\ hook' = [hook EXCEPT ![i] = [@ EXCEPT !.pc = "done", !.result = "error"]]
            /\ UNCHANGED storeVars
       ELSE LET userUUID == IF IsUUID(hook[i].userID) THEN hook[i].userID
                            ELSE NewSHA1(hook[i].userID)
                res == AddMessage(call[i].result, hook[i].content, "user", userUUID,
                                  hook[i].metadata, plan)
            IN  /\ StoreAfter(res)
                /\ hook' = [hook EXCEPT ![i] =
                       IF res.err # "nil"
                       THEN [@ EXCEPT !.pc = "done", !.result = "error"]
                       ELSE IF autoResponder = "nil"
                            THEN [@ EXCEPT !.pc = "done", !.result = "message processed",
                                           !.messageID = res.message.id,
                                           !.calls = <<ChatNotification(call[i].result,
                                                           res.message.id, "none")>>]
                            ELSE [@ EXCEPT !.pc = "respond", !.messageID = res.message.id]]
    /\ UNCHANGED <<recentMessages, sweep, call, now>>

\* GetChatLightweight: id, times, status, user, source and client of the
\* chat; assigned_to is not among the selected columns, AssignedTo stays nil
GetChatLightweight(chatID) == [id |-> chatID, assignedTo |-> "none"]

\* ProcessMessage up to the delay: nothing for a chat whose AssignedTo is
\* set, else the message of the user goes to the history of the chat
ProcessMessageStart(chat, content) ==
    IF chat.assignedTo \notin {"none", NilUUID}
    THEN [botMsg |-> "nil", history |-> history]
    ELSE LET hist == IF chat.id \in DOMAIN history THEN history[chat.id]
                     ELSE <<<<"system", "systemPrompt">>>>
         IN  [botMsg |-> "pending",
              history |-> MapPut(history, chat.id, Append(hist, <<"user", content>>))]

\* botMsg.Metadata: isAutoResponse is true, needEscalation is escalate
BotMetadata(escalate) ==
    {"isAutoResponse"} \cup (IF escalate THEN {"needEscalation"} ELSE {})

\* the replies of the model in answer to a submission
HookReplies == {<<"a">>, <<"A", "i">>}

\* the ends of the rest of ProcessMessage: the request context is done during
\* the delay, GenerateResponse fails, or it returns a reply
GenerateOutcomes ==
    {[err |-> e, rawResp |-> <<>>] : e \in {"ctx_done", "llm_error"}}
        \cup {[err |-> "nil", rawResp |-> r] : r \in HookReplies}

\* ProcessMessage with the errors of the delay and of GenerateResponse
\* dropped: it goes on with the reply it has, the empty one
GenerateNeverFails(outcome) == FALSE

\* case <-ctx.Done(): return nil, ctx.Err(), and
\* if err != nil { return nil, fmt.Errorf("GenerateResponse: %w", err) }
GenerateFailed(outcome) == outcome.err # "nil"

\* the auto-responder of TelegramWebhook, first half: the chat is loaded
\* again with GetChatLightweight (on its error the chat that GetOrCreateChat
\* returned is used) and handed to ProcessMessage
WebhookProcessMessage(i, loaded) ==
    /\ hook[i].pc = "respond"
    /\ loaded => ChatExists(call[i].result)
    /\ LET lightChat == IF loaded THEN GetChatLightweight(call[i].result)
                        ELSE [id |-> call[i].result, assignedTo |-> call[i].assignedTo]
           r == ProcessMessageStart(lightChat, hook[i].content)
       IN  /\ history' = r.history
           /\ hook' = [hook EXCEPT ![i] =
                  IF r.botMsg = "nil"
                  THEN [@ EXCEPT !.pc = "done", !.result = "message processed",
                                 !.calls = <<ChatNotification(call[i].result,
                                                 hook[i].messageID, "none")>>]
                  ELSE [@ EXCEPT !.pc = "generate"]]
    /\ UNCHANGED <<recentMessages, sweep, storeVars, call, now>>

\* second half: after the delay and GenerateResponse the reply is filtered,
\* added to the history and stored by AddMessage as a message of sender
\* "admin" with the nil UUID; an error of either is logged.  The response is
\* 200 "message processed" in every case.
WebhookGenerate(i, outcome, plan) ==
    /\ hook[i].pc = "generate"
    /\ IF ~GenerateFailed(outcome)
       THEN LET botMsg == filterReply(outcome.rawResp)
                res == AddMessage(call[i].result, String(botMsg.content), "admin",
                                  NilUUID, BotMetadata(botMsg.escalate), plan)
            IN  /\ history' = MapPut(history, call[i].result,
                                     Append(history[call[i].result],
                                            <<"assistant", String(botMsg.content)>>))
                /\ StoreAfter(res)
                /\ hook' = [hook EXCEPT ![i] =
                       [@ EXCEPT !.pc = "done", !.result = "message processed",
                                 !.llm = outcome.err,
                                 !.botMessageID = IF res.err = "nil" THEN res.message.id
                                                  ELSE "none",
                                 \* botMsg = saved only when it was saved: else
                                 \* the unsaved message, whose ID is uuid.Nil
                                 !.calls = <<ChatNotification(call[i].result,
                                                 hook[i].messageID,
                                                 IF res.err = "nil" THEN res.message.id
                                                 ELSE NilUUID)>>]]
       ELSE /\ hook' = [hook EXCEPT ![i] =
                       [@ EXCEPT !.pc = "done", !.result = "message processed",
                                 !.llm = outcome.err,
                                 !.calls = <<ChatNotification(call[i].result,
                                                 hook[i].messageID, "none")>>]]
            /\ UNCHANGED <<history, storeVars>>
    /\ UNCHANGED <<recentMessages, sweep, call, now>>

\* an operator takes the chat: assigned_to of its row is set
AssignChat(adminID) ==
    /\ \E chat \in chats :
           /\ chat.assignedTo = "none"
           /\ chats' = (chats \ {chat}) \cup {[chat EXCEPT !.assignedTo = adminID]}
    /\ UNCHANGED <<users, messages, nextID>>

\* a frame handed to the hub by processAutoResponse or escalateChat
HubCall(op, chatID, type, messageID) ==
    [op |-> op, chatID |-> chatID, type |-> type, message |-> messageID]

IdleAuto == [pc |-> "idle", botMessageID |-> "none", escalate |-> FALSE, calls |-> <<>>,
             llm |-> "none"]

Range(seq) == {seq[k] : k \in DOMAIN seq}

\* go processAutoResponse(ctx, chat, message): the goroutine runs
\* ProcessMessage up to its delay, on the chat that GetChatByID returned to
\* processSendMessage
processAutoResponse(j) ==
    /\ wsReq[j].pc = "done"
    /\ "processAutoResponse" \in Range(wsReq[j].calls)
    /\ auto[j].pc = "idle"
    /\ LET r == ProcessMessageStart([id |-> wsReq[j].payload.chatID,
                                     assignedTo |-> wsReq[j].assignedTo],
                                    wsReq[j].payload.content)
       IN  /\ history' = r.history
           /\ auto' = [auto EXCEPT ![j].pc = IF r.botMsg = "nil" THEN "done" ELSE "generate"]
    /\ UNCHANGED <<storeVars, now>>

\* the rest of processAutoResponse: an error of ProcessMessage or of
\* AddMessage is logged and the goroutine returns; else the saved reply goes
\* to BroadcastMessage as a new_message frame and to SendToChat as a message
\* frame, and escalateChat broadcasts a chat_escalation frame when the saved
\* metadata has needEscalation
processAutoResponseGenerate(j, outcome, plan) ==
    /\ auto[j].pc = "generate"
    /\ LET chatID == wsReq[j].payload.chatID
       IN  IF ~GenerateFailed(outcome)
           THEN LET botMsg == filterReply(outcome.rawResp)
                    res == AddMessage(chatID, String(botMsg.content), "admin", NilUUID,
                                      BotMetadata(botMsg.escalate), plan)
                IN  /\ history' = MapPut(history, chatID,
                                         Append(history[chatID],
                                                <<"assistant", String(botMsg.content)>>))
                    /\ StoreAfter(res)
                    /\ auto' = [auto EXCEPT ![j] =
                           IF res.err # "nil"
                           THEN [@ EXCEPT !.pc = "done", !.escalate = botMsg.escalate,
                                          !.llm = outcome.err]
                           ELSE [@ EXCEPT !.pc = "done", !.escalate = botMsg.escalate,
                                     !.llm = outcome.err,
                                     !.botMessageID = res.message.id,
                                     !.calls =
                                         <<HubCall("BroadcastMessage", chatID, "new_message",
                                                   res.message.id),
                                           HubCall("SendToChat", chatID, "message",
                                                   res.message.id)>>
                                         \o (IF "needEscalation" \in res.message.metadata
                                             THEN <<HubCall("BroadcastMessage", chatID,
                                                            "chat_escalation", "none")>>
                                             ELSE <<>>)]]
           ELSE /\ auto' = [auto EXCEPT ![j] = [@ EXCEPT !.pc = "done", !.llm = outcome.err]]
                /\ UNCHANGED <<history, storeVars>>
    /\ UNCHANGED now

\* a tick of cleanupRecentMessages.  The window of the clock is shorter than
\* SweepInterval: a sweeper that was running before it ticks once in it, at a
\* moment of its own, one started in it does not tick.
cleanupRecentMessages ==
    /\ sweep = "due"
    /\ MaxTime < SweepInterval
    /\ sweep' = "later"
    /\ recentMessages' = [h \in {k \in DOMAIN recentMessages :
                                     ~(now - recentMessages[k] > SweepAge)}
                              |-> recentMessages[h]]
    /\ UNCHANGED <<hook, storeVars, call, now>>

\* The clock moves by whole seconds.  The storage calls of a submission
\* (each bounded by dbQueryTimeout) fall within one second of the clock;
\* between the duplicate check and registerMessage the clock is free.
Tick ==
    /\ now < MaxTime
    /\ \A i \in Hooks : hook[i].pc \in {"new", "register", "done"}
    /\ now' = now + 1
    /\ UNCHANGED <<recentMessages, sweep, hook, storeVars, call>>

(***************************************************************************)
(* The request handlers of the WebSocket endpoint                          *)
(* (processWebSocketMessage and the handlers it calls), run one frame at a *)
(* time by the ReadPump of the connection.  A handler validates, works on  *)
(* the store, fans out through the hub and answers its connection with     *)
(* SendJSON or SendError, a plain send on the queue of the connection.     *)
(***************************************************************************)
\* messages the store holds at most while frames are handled
MaxStored == 1

FrameTypes == {"not json", "unknown", "sendMessage", "markAsRead", "typing",
               "getChats", "getChatByID", "getWidgetMessages"}

\* the inbound frames: the type of the envelope and the chatID and content
\* of its payload ("zz" is no UUID); the fields that the handler of the type
\* does not read are fixed
Frames ==
    {f \in [type : FrameTypes, chatID : {"A", "", "zz"}, content : {"hi", ""}] :
        /\ f.type # "sendMessage" => f.content = "hi" /\ f.chatID # ""
        /\ f.type \in {"not json", "unknown", "getChats"} => f.chatID = "A"}

\* the schedule of a store whose first attempt ends with outcome
PlanOf(outcome) == [k \in 1..PlanLen |-> IF k = 1 THEN outcome ELSE "ok"]

\* a frame together with what the store does while it is handled: the
\* outcome of AddMessage and whether the other statements succeed.  Where
\* the handler does not get as far as the store, the store is left fine.
HandlerInputs ==
    {in \in [f : Frames, outcome : AttemptOutcomes, dbOK : BOOLEAN] :
        LET valid == IsUUID(in.f.chatID) /\ in.f.content # ""
        IN  /\ in.outcome # "ok" => in.f.type = "sendMessage" /\ valid /\ in.dbOK
            /\ ~in.dbOK => (in.f.type \notin {"not json", "unknown", "typing"} /\ valid)}

\* the codes of SendError and the types of the answers of SendJSON
ErrorCodes == {"invalid_json", "unknown_type", "missing_fields", "invalid_uuid",
               "access_denied", "db_error"}

AckTypes == {"messageSent", "markAsReadConfirmed", "chatsList", "chatDetails",
             "widgetMessages"}

ReplyFrame(c, reply) ==
    [kind |-> IF reply \in ErrorCodes THEN "error" ELSE "ack", to |-> c]

IdleHandler == [pc |-> "idle", chatID |-> "none", reply |-> "none", calls |-> <<>>]

\* MarkMessagesAsRead without the test of the sender
MarkAllMessagesAsRead(chatID) ==
    [i \in 1..Len(messages) |->
        IF messages[i].chatID = chatID
        THEN [messages[i] EXCEPT !.read = TRUE] ELSE messages[i]]

\* UPDATE messages SET read=true WHERE chat_id=$1 AND sender='user' AND read=false
MarkMessagesAsRead(chatID) ==
    [i \in 1..Len(messages) |->
        IF messages[i].chatID = chatID /\ messages[i].sender = "user"
        THEN [messages[i] EXCEPT !.read = TRUE] ELSE messages[i]]

\* What the handler of frame f on connection c does before it touches the
\* hub: the answer it will send ("none": no answer), the calls of the hub it
\* will make, the messages and chats it leaves in the store, and whether it
\* panics.  plan is the schedule of AddMessage, dbOK whether the other
\* statements succeed.
HandlerResult(c, f, plan, dbOK) ==
    LET quiet == [reply |-> "none", calls |-> <<>>, res |-> [err |-> "none"],
                  messages |-> messages, panic |-> FALSE]
        error(code) == [quiet EXCEPT !.reply = code]
        sender == IF ClientType(c) = ClientTypeAdmin THEN "admin" ELSE "user"
    IN  CASE f.type = "not json" -> error("invalid_json")
          [] f.type = "unknown" -> error("unknown_type")
          [] f.type = "sendMessage" ->
               IF f.chatID = "" \/ f.content = "" THEN error("missing_fields")
               ELSE IF ~IsUUID(f.chatID) THEN error("invalid_uuid")
               ELSE LET res == AddMessage(f.chatID, f.content, sender, ID(c), NoMeta, plan)
                    IN  IF res.err # "nil" THEN error("db_error")
                        ELSE IF ~dbOK
                        THEN \* NewChatMessage(nil, message)
                             [quiet EXCEPT !.res = res, !.panic = TRUE]
                        ELSE [quiet EXCEPT
                                 !.res = res, !.reply = "messageSent",
                                 !.calls = <<"BroadcastMessage">>
                                     \o (IF sender = "admin" THEN <<"SendToChat">>
                                         ELSE <<>>)]
          [] f.type = "markAsRead" ->
               IF ~IsUUID(f.chatID) THEN error("invalid_uuid")
               ELSE IF ~dbOK THEN error("db_error")
               ELSE [quiet EXCEPT !.messages = MarkMessagesAsRead(f.chatID),
                                  !.calls = <<"SendToChat">>,
                                  !.reply = "markAsReadConfirmed"]
          [] f.type = "typing" ->
               IF ~IsUUID(f.chatID) THEN error("invalid_uuid")
               ELSE [quiet EXCEPT !.calls = <<"SendToChat">>]
          [] f.type = "getChats" ->
               IF ClientType(c) # ClientTypeAdmin
               THEN \* adminIDStr.(string) of the nil that ginCtx.Get returns
                    [quiet EXCEPT !.panic = TRUE]
               ELSE IF ~dbOK THEN error("db_error")
               ELSE [quiet EXCEPT !.reply = "chatsList"]
          [] f.type = "getChatByID" ->
               IF ~IsUUID(f.chatID) THEN error("invalid_uuid")
               ELSE IF ~dbOK \/ ~ChatExists(f.chatID) THEN error("db_error")
               ELSE [quiet EXCEPT
                        !.messages = IF ClientType(c) = ClientTypeAdmin
                                     THEN MarkMessagesAsRead(f.chatID) ELSE messages,
                        !.reply = "chatDetails"]
          [] OTHER ->
               IF ~IsUUID(f.chatID) THEN error("invalid_uuid")
               ELSE IF ClientType(c) = ClientTypeWidget /\ ChatID(c) # f.chatID
               THEN error("access_denied")
               ELSE IF ~dbOK \/ ~ChatExists(f.chatID) THEN error("db_error")
               ELSE [quiet EXCEPT !.reply = "widgetMessages"]

\* where the handler goes on after a step: the next call of the hub, the
\* answer, or back to ReadMessage
NextPc(calls, reply) ==
    IF calls # <<>> THEN "fanout" ELSE IF reply # "none" THEN "reply" ELSE "idle"

\* ReadPump has read frame f: processWebSocketMessage up to the first call
\* of the hub or the answer
processWebSocketMessage(c, f, plan, dbOK) ==
    /\ ~panicked
    /\ readPump[c] = "run"
    /\ handler[c].pc = "idle"
    /\ f.type = "sendMessage" => Len(messages) < MaxStored
    /\ LET r == HandlerResult(c, f, plan, dbOK)
       IN  /\ IF r.res.err = "nil"
              THEN StoreAfter(r.res)
              ELSE /\ messages' = r.messages
                   /\ UNCHANGED <<users, chats, nextID>>
           /\ panicked' = r.panic
           /\ handler' = [handler EXCEPT ![c] =
                  IF r.panic THEN [IdleHandler EXCEPT !.pc = "panic"]
                  ELSE IF NextPc(r.calls, r.reply) = "idle" THEN IdleHandler
                  ELSE [pc |-> NextPc(r.calls, r.reply),
                        chatID |-> IF r.calls = <<>> THEN "none" ELSE f.chatID,
                        reply |-> r.reply, calls |-> r.calls]]
    /\ UNCHANGED <<clients, adminsByID, widgetsByID, chatClients, stats, send, closed,
                   closes, serve, readPump, writePump, cleanups, chatSend,
                   lastRegistered>>

\* the next call of the hub by the handler: BroadcastMessage, carried out by
\* Hub.Run, or SendToChat with the chat id of the frame
HandlerFanout(c) ==
    /\ ~panicked
    /\ handler[c].pc = "fanout"
    /\ LET members == ChatSnapshot(handler[c].chatID)
       IN  IF Head(handler[c].calls) = "BroadcastMessage"
           THEN /\ broadcastMessage(BroadcastFrame)
                /\ UNCHANGED panicked
           ELSE IF \E m \in members : closed[m]
           THEN /\ panicked' = TRUE
                /\ UNCHANGED <<send, cleanups>>
           ELSE /\ send' = [m \in Conns |->
                              IF m \in members /\ CanSend(m)
                              THEN Append(send[m], ChatFrame(handler[c].chatID))
                              ELSE send[m]]
                /\ cleanupClient({m \in members : ~CanSend(m)})
                /\ UNCHANGED panicked
    /\ handler' = [handler EXCEPT ![c] =
           IF NextPc(Tail(handler[c].calls), handler[c].reply) = "idle" THEN IdleHandler
           ELSE [@ EXCEPT !.calls = Tail(@),
                          !.chatID = IF Tail(handler[c].calls) = <<>> THEN "none" ELSE @,
                          !.pc = NextPc(Tail(handler[c].calls), handler[c].reply)]]
    /\ UNCHANGED <<clients, adminsByID, widgetsByID, chatClients, stats, closed,
                   closes, serve, readPump, writePump, chatSend, lastRegistered>>

\* Client.SendJSON / Client.SendError: c.send <- data.  The send panics on a
\* closed queue and waits while the queue is full.
HandlerReply(c) ==
    /\ ~panicked
    /\ handler[c].pc = "reply"
    /\ IF closed[c]
       THEN /\ panicked' = TRUE
            /\ UNCHANGED send
       ELSE /\ CanSend(c)
            /\ send' = [send EXCEPT ![c] = Append(@, ReplyFrame(c, handler[c].reply))]
            /\ UNCHANGED panicked
    /\ handler' = [handler EXCEPT ![c] = IdleHandler]
    /\ UNCHANGED <<clients, adminsByID, widgetsByID, chatClients, stats, closed,
                   closes, serve, readPump, writePump, cleanups, chatSend,
                   lastRegistered>>

(***************************************************************************)
(* The unread count of GetChats and MarkMessagesAsRead.                    *)
(***************************************************************************)
\* COUNT(...) that counts every joined message row
CountAllRows(chatID, k) ==
    Cardinality({i \in 1..k : messages[i].chatID = chatID})

\* COUNT(CASE WHEN m.sender='user' AND m.read=false THEN 1 END) over the rows
\* of LEFT JOIN messages m ON m.chat_id=c.id, grouped by chat: the first k
\* message rows are scanned, a row of another chat is not joined, a joined
\* row for which the CASE is NULL is not counted
RECURSIVE CountUnread(_, _)
CountUnread(chatID, k) ==
    IF k = 0 THEN 0
    ELSE CountUnread(chatID, k - 1)
             + (IF messages[k].chatID # chatID THEN 0
                ELSE IF messages[k].sender = "user" /\ messages[k].read = FALSE
                     THEN 1 ELSE 0)

\* GetChats: chat.UnreadCount of every chat of the list
GetChats ==
    {[id |-> x.id, unreadCount |-> CountUnread(x.id, Len(messages))] : x \in chats}

NoView == [op |-> "none", chatID |-> "none", list |-> {}]

\* an operator asks for the list of chats
GetChatsCall ==
    /\ view' = [op |-> "GetChats", chatID |-> "none", list |-> GetChats]
    /\ UNCHANGED <<storeVars, now>>

\* database.MarkMessagesAsRead(chatID), from markAsRead or getChatByID
MarkMessagesAsReadCall(chatID) ==
    /\ messages' = MarkMessagesAsRead(chatID)
    /\ view' = [op |-> "MarkMessagesAsRead", chatID |-> chatID, list |-> {}]
    /\ UNCHANGED <<users, chats, nextID, now>>

\* how many messages are added to the store that was there at the start
MaxAdded == 1

\* a message of a user or of an operator is stored in a chat
AddMessageCall(chatID, sender) ==
    /\ nextID <= MaxAdded
    /\ StoreAfter(AddMessage(chatID, "hi", sender, NilUUID, NoMeta, <<"ok">>))
    /\ view' = [op |-> "AddMessage", chatID |-> chatID, list |-> {}]
    /\ UNCHANGED now

(***************************************************************************)
(* The specifications.                                                     *)
(***************************************************************************)
InitCalls == call = [p \in Callers |-> IdleCall]

\* no auto-responder (ENABLE_AUTO_RESPONDER=false)
InitLLM == autoResponder = "nil" /\ history = EmptyMap /\ filt = NoFilter

\* no frame is being handled
InitHandler == handler = [c \in Conns |-> IdleHandler]

InitWs == wsReq = [j \in WsRequests |-> NewWsReq]

\* no AddMessage transaction is open, no processAutoResponse is running
InitTasks ==
    /\ addTx = [p \in AddCallers |-> IdleAddTx]
    /\ auto = [j \in WsRequests |-> IdleAuto]
    /\ view = NoView

\* the mutex is free, the hub loop waits in its select, nobody is in a send
IdleLoop == [pc |-> "select", c |-> NoClient, disconnected |-> {}]

IdleCaller == [pc |-> "idle", to |-> "none", c |-> NoClient]

InitLock ==
    /\ mu = [writer |-> "none", readers |-> {}]
    /\ loop = IdleLoop
    /\ caller = IdleCaller

\* the hub and its connections, nothing stored
Init ==
    /\ InitHub /\ InitCalls /\ InitWs
    /\ users = {} /\ chats = {} /\ messages = <<>> /\ nextID = 1
    /\ now = 0
    /\ recentMessages = EmptyMap /\ sweep = "off" /\ hook = [i \in Hooks |-> NewHook]
    /\ InitLLM /\ InitHandler /\ InitTasks /\ InitLock

HubStep == UNCHANGED <<storeVars, call, now, wsReq, dedupVars, llmVars, handler, taskVars, lockVars>>

Next ==
    \/ \E c \in Conns : ServeWs(c) /\ HubStep
    \/ BroadcastMessage /\ HubStep
    \/ \E c \in Conns : ReadPumpExit(c) /\ HubStep
    \/ \E c \in Conns : WritePumpDrain(c) /\ HubStep
    \/ \E c \in Conns : WritePumpExit(c) /\ HubStep
    \/ \E c \in Conns : CleanupUnregister(c) /\ HubStep
    \/ \E adminID \in AdminIDs : SendToAdmin(adminID) /\ HubStep
    \/ \E chatID \in ChatIDs : SendToChatSnapshot(chatID) /\ HubStep
    \/ SendToChatDeliver /\ HubStep

Spec == Init /\ [][Next]_vars

\* concurrent GetOrCreateChat calls over the storage
InitChat ==
    /\ InitHub /\ InitStore /\ InitCalls /\ InitWs
    /\ now = 0
    /\ recentMessages = EmptyMap /\ sweep = "off" /\ hook = [i \in Hooks |-> NewHook]
    /\ InitLLM /\ InitHandler /\ InitTasks /\ InitLock

ChatStep == UNCHANGED <<hubVars, now, wsReq, dedupVars, llmVars, handler, taskVars, lockVars>>

NextChat ==
    \/ \E p \in Callers : \E req \in Requests : BeginChatTx(p, req) /\ ChatStep
    \/ \E p \in Callers : SelectUser(p) /\ ChatStep
    \/ \E p \in Callers : InsertUser(p) /\ ChatStep
    \/ \E p \in Callers : SelectChat(p) /\ ChatStep
    \/ \E p \in Callers : InsertChat(p) /\ ChatStep
    \/ \E p \in Callers : CommitChatTx(p) /\ ChatStep
    \/ \E p \in Callers : FetchChat(p) /\ ChatStep
    \/ \E p \in Callers : FailChatTx(p) /\ ChatStep

SpecChat == InitChat /\ [][NextChat]_vars

\* sendMessage requests over a store that holds chat A, created at time 0
InitAdd ==
    /\ InitHub /\ InitCalls /\ InitWs
    /\ users = {[id |-> "U0", source |-> Source, sourceID |-> "u1"]}
    /\ chats = {[id |-> "A", userID |-> "U0", updatedAt |-> 0, assignedTo |-> "none",
                 source |-> Source, botID |-> "b1", clientID |-> ClientKey]}
    /\ messages = <<>>
    /\ nextID = 1
    /\ now = 1
    /\ recentMessages = EmptyMap /\ sweep = "off" /\ hook = [i \in Hooks |-> NewHook]
    /\ InitLLM /\ InitHandler /\ InitTasks /\ InitLock

NextAdd ==
    \E j \in WsRequests : \E c \in {"c1", "c3"} : \E p \in WsPayloads :
        \E plan \in Plans : \E chatFetched \in BOOLEAN :
            processSendMessage(j, c, p, plan, chatFetched)
                /\ UNCHANGED <<hubVars, call, dedupVars, llmVars, handler, taskVars, lockVars>>

SpecAdd == InitAdd /\ [][NextAdd]_vars

\* webhook submissions over an empty store
InitWebhook ==
    /\ InitHub /\ InitCalls /\ InitWs /\ InitDedup
    /\ users = {} /\ chats = {} /\ messages = <<>> /\ nextID = 1
    /\ now = 0
    /\ InitLLM /\ InitHandler /\ InitTasks /\ InitLock

WebhookStep == UNCHANGED <<hubVars, wsReq, llmVars, handler, taskVars, lockVars>>

ChatTxStep == UNCHANGED <<hubVars, wsReq, now, dedupVars, llmVars, handler, taskVars, lockVars>>

NextWebhook ==
    \/ \E i \in Hooks : \E userID \in HookUsers : \E content \in HookContents :
           TelegramWebhook(i, userID, content, NoMeta) /\ WebhookStep
    \/ \E i \in Hooks : WebhookRegister(i) /\ WebhookStep
    \/ \E i \in Hooks : WebhookGetOrCreateChat(i) /\ WebhookStep
    \/ \E p \in Callers : SelectUser(p) /\ ChatTxStep
    \/ \E p \in Callers : InsertUser(p) /\ ChatTxStep
    \/ \E p \in Callers : SelectChat(p) /\ ChatTxStep
    \/ \E p \in Callers : InsertChat(p) /\ ChatTxStep
    \/ \E p \in Callers : CommitChatTx(p) /\ ChatTxStep
    \/ \E p \in Callers : FetchChat(p) /\ ChatTxStep
    \/ \E p \in Callers : FailChatTx(p) /\ ChatTxStep
    \/ \E i \in Hooks : \E plan \in Plans : WebhookAddMessage(i, plan) /\ WebhookStep
    \/ cleanupRecentMessages /\ WebhookStep
    \/ Tick /\ WebhookStep

SpecWebhook == InitWebhook /\ [][NextWebhook]_vars

\* an admin connection and the widget of chat A, their frames handled over
\* a store that holds chat A
InitHandlers ==
    /\ InitHub /\ InitCalls /\ InitWs /\ InitLLM /\ InitHandler /\ InitTasks /\ InitLock
    /\ users = {[id |-> "U0", source |-> Source, sourceID |-> "u1"]}
    /\ chats = {[id |-> "A", userID |-> "U0", updatedAt |-> 0, assignedTo |-> "none",
                 source |-> Source, botID |-> "b1", clientID |-> ClientKey]}
    /\ messages = <<>>
    /\ nextID = 1
    /\ now = 1
    /\ recentMessages = EmptyMap /\ sweep = "off" /\ hook = [i \in Hooks |-> NewHook]

HandlerConns == {"c1", "c3"}

HandlerStep == UNCHANGED <<call, now, wsReq, dedupVars, llmVars, taskVars, lockVars>>

NextHandlers ==
    \/ \E c \in HandlerConns : ServeWs(c) /\ HubStep
    \/ BroadcastMessage /\ HubStep
    \/ \E c \in HandlerConns : handler[c].pc = "idle" /\ ReadPumpExit(c) /\ HubStep
    \/ \E c \in HandlerConns : WritePumpDrain(c) /\ HubStep
    \/ \E c \in HandlerConns : WritePumpExit(c) /\ HubStep
    \/ \E c \in HandlerConns : CleanupUnregister(c) /\ HubStep
    \/ \E c \in HandlerConns : \E in \in HandlerInputs :
           processWebSocketMessage(c, in.f, PlanOf(in.outcome), in.dbOK) /\ HandlerStep
    \/ \E c \in HandlerConns : HandlerFanout(c) /\ UNCHANGED storeVars /\ HandlerStep
    \/ \E c \in HandlerConns : HandlerReply(c) /\ UNCHANGED storeVars /\ HandlerStep

SpecHandlers == InitHandlers /\ [][NextHandlers]_vars

\* the hub with an admin connection and a widget, and the goroutines of
\* cleanupClient scheduled fairly: each of them wakes up after its 100 ms and
\* its send on Unregister is received by Hub.Run, which never leaves its loop
NextEvict ==
    \/ \E c \in HandlerConns : ServeWs(c) /\ HubStep
    \/ BroadcastMessage /\ HubStep
    \/ \E c \in HandlerConns : ReadPumpExit(c) /\ HubStep
    \/ \E c \in HandlerConns : WritePumpDrain(c) /\ HubStep
    \/ \E c \in HandlerConns : WritePumpExit(c) /\ HubStep
    \/ \E c \in HandlerConns : CleanupUnregister(c) /\ HubStep
    \/ \E adminID \in AdminIDs : SendToAdmin(adminID) /\ HubStep
    \/ \E chatID \in ChatIDs : SendToChatSnapshot(chatID) /\ HubStep
    \/ SendToChatDeliver /\ HubStep

SpecEvict ==
    /\ Init
    /\ [][NextEvict]_vars
    /\ \A c \in HandlerConns : WF_vars(CleanupUnregister(c) /\ HubStep)

\* the filter applied to every reply of the model of up to MaxReplyLen runes
InitSanitize ==
    /\ InitHub /\ InitCalls /\ InitWs
    /\ users = {} /\ chats = {} /\ messages = <<>> /\ nextID = 1
    /\ now = 0
    /\ recentMessages = EmptyMap /\ sweep = "off" /\ hook = [i \in Hooks |-> NewHook]
    /\ autoResponder = "on" /\ history = EmptyMap /\ InitHandler /\ InitTasks /\ InitLock
    /\ \E rawResp \in Replies : filt = [NoFilter EXCEPT !.pc = "raw", !.rawResp = rawResp]

NextSanitize ==
    FilterReply /\ UNCHANGED <<hubVars, storeVars, call, now, wsReq, dedupVars,
                               autoResponder, history, handler, taskVars, lockVars>>

SpecSanitize == InitSanitize /\ [][NextSanitize]_vars

\* webhook submissions with the auto-responder on, within one second of the
\* clock, and operators taking chats
InitAutoReply ==
    /\ InitHub /\ InitCalls /\ InitWs
    /\ users = {} /\ chats = {} /\ messages = <<>> /\ nextID = 1
    /\ now = 0
    /\ recentMessages = EmptyMap /\ sweep = "off" /\ hook = [i \in Hooks |-> NewHook]
    /\ autoResponder = "on" /\ history = EmptyMap /\ filt = NoFilter /\ InitHandler /\ InitTasks /\ InitLock

ReplyStep == UNCHANGED <<hubVars, wsReq, autoResponder, filt, handler, taskVars, lockVars>>

NextAutoReply ==
    \/ \E i \in Hooks : \E userID \in HookUsers : \E content \in HookContents :
           TelegramWebhook(i, userID, content, NoMeta) /\ WebhookStep
    \/ \E i \in Hooks : WebhookRegister(i) /\ WebhookStep
    \/ \E i \in Hooks : WebhookGetOrCreateChat(i) /\ WebhookStep
    \/ \E p \in Callers : SelectUser(p) /\ ChatTxStep
    \/ \E p \in Callers : InsertUser(p) /\ ChatTxStep
    \/ \E p \in Callers : SelectChat(p) /\ ChatTxStep
    \/ \E p \in Callers : InsertChat(p) /\ ChatTxStep
    \/ \E p \in Callers : CommitChatTx(p) /\ ChatTxStep
    \/ \E p \in Callers : FetchChat(p) /\ ChatTxStep
    \/ \E p \in Callers : FailChatTx(p) /\ ChatTxStep
    \/ \E i \in Hooks : \E plan \in Plans : WebhookAddMessage(i, plan) /\ WebhookStep
    \/ \E i \in Hooks : \E loaded \in BOOLEAN : WebhookProcessMessage(i, loaded) /\ ReplyStep
    \/ \E i \in Hooks : \E outcome \in GenerateOutcomes : \E plan \in Plans :
           WebhookGenerate(i, outcome, plan) /\ ReplyStep
    \/ \E adminID \in AdminIDs :
           AssignChat(adminID)
               /\ UNCHANGED <<hubVars, wsReq, call, now, dedupVars, llmVars, handler, taskVars, lockVars>>

SpecAutoReply == InitAutoReply /\ [][NextAutoReply]_vars

\* concurrent AddMessage calls, statement by statement, over a store that
\* holds chat A; the clock moves between the statements
MaxTxTime == 3

InitTx ==
    /\ InitHub /\ InitCalls /\ InitWs /\ InitLLM /\ InitHandler /\ InitTasks /\ InitLock
    /\ users = {[id |-> "U0", source |-> Source, sourceID |-> "u1"]}
    /\ chats = {[id |-> "A", userID |-> "U0", updatedAt |-> 0, assignedTo |-> "none",
                 source |-> Source, botID |-> "b1", clientID |-> ClientKey]}
    /\ messages = <<>>
    /\ nextID = 1
    /\ now = 1
    /\ recentMessages = EmptyMap /\ sweep = "off" /\ hook = [i \in Hooks |-> NewHook]

TxStep == UNCHANGED <<hubVars, call, wsReq, dedupVars, llmVars, handler, auto, view, lockVars>>

NextTx ==
    \/ \E p \in AddCallers : \E args \in AddArgs : BeginAddTx(p, args) /\ TxStep
    \/ \E p \in AddCallers : AddTxExists(p) /\ TxStep
    \/ \E p \in AddCallers : AddTxInsert(p) /\ TxStep
    \/ \E p \in AddCallers : AddTxUpdate(p) /\ TxStep
    \/ \E p \in AddCallers : AddTxCommit(p) /\ TxStep
    \/ \E p \in AddCallers : AddTxFail(p) /\ TxStep
    \/ now < MaxTxTime /\ Tick /\ WebhookStep

SpecTx == InitTx /\ [][NextTx]_vars

\* a webhook submission and a sendMessage request with the auto-responder on,
\* over a store that holds chat A of user u1: with and without content, with
\* and without a needEscalation key in the metadata the client sends
ReplyContents == {"hi", ""}

ClientMetadata == {NoMeta, {"needEscalation"}}

ReplyPayloads == [chatID : {"A"}, content : ReplyContents, metadata : ClientMetadata]

InitReply ==
    /\ InitHub /\ InitCalls /\ InitWs
    /\ users = {[id |-> "U0", source |-> Source, sourceID |-> "u1"]}
    /\ chats = {[id |-> "A", userID |-> "U0", updatedAt |-> 0, assignedTo |-> "none",
                 source |-> Source, botID |-> HookBot, clientID |-> ClientKey]}
    /\ messages = <<>>
    /\ nextID = 1
    /\ now = 1
    /\ recentMessages = EmptyMap /\ sweep = "off" /\ hook = [i \in Hooks |-> NewHook]
    /\ autoResponder = "on" /\ history = EmptyMap /\ filt = NoFilter /\ InitHandler
    /\ InitTasks /\ InitLock

WsReplyStep ==
    UNCHANGED <<hubVars, call, wsReq, dedupVars, autoResponder, filt, handler, addTx, view, lockVars>>

NextReply ==
    \/ \E content \in ReplyContents : \E meta \in ClientMetadata :
           TelegramWebhook(1, "u1", content, meta) /\ WebhookStep
    \/ \E i \in Hooks : WebhookRegister(i) /\ WebhookStep
    \/ \E i \in Hooks : WebhookGetOrCreateChat(i) /\ WebhookStep
    \/ \E p \in Callers : SelectUser(p) /\ ChatTxStep
    \/ \E p \in Callers : SelectChat(p) /\ ChatTxStep
    \/ \E p \in Callers : CommitChatTx(p) /\ ChatTxStep
    \/ \E p \in Callers : FetchChat(p) /\ ChatTxStep
    \/ \E p \in Callers : FailChatTx(p) /\ ChatTxStep
    \/ \E i \in Hooks : \E plan \in Plans : WebhookAddMessage(i, plan) /\ WebhookStep
    \/ \E i \in Hooks : \E loaded \in BOOLEAN : WebhookProcessMessage(i, loaded) /\ ReplyStep
    \/ \E i \in Hooks : \E outcome \in GenerateOutcomes : \E plan \in Plans :
           WebhookGenerate(i, outcome, plan) /\ ReplyStep
    \/ \E c \in {"c1", "c3"} : \E p \in ReplyPayloads : \E plan \in Plans :
           processSendMessage(1, c, p, plan, TRUE)
               /\ UNCHANGED <<hubVars, call, dedupVars, llmVars, handler, taskVars, lockVars>>
    \/ \E j \in WsRequests : processAutoResponse(j) /\ WsReplyStep
    \/ \E j \in WsRequests : \E outcome \in GenerateOutcomes : \E plan \in Plans :
           processAutoResponseGenerate(j, outcome, plan) /\ WsReplyStep

SpecReply == InitReply /\ [][NextReply]_vars

\* GetChats, MarkMessagesAsRead and AddMessage over stores that hold chat A
\* with up to MaxUnread unread and MaxRead read messages of its user and up to
\* MaxAdmin messages of operators, and chat B with up to one message of each
MaxUnread == 5

MaxRead == 1

MaxAdmin == 2

\* n message rows of one chat and sender
Rows(chatID, sender, read, n) ==
    [k \in 1..n |-> [id |-> "r", chatID |-> chatID, content |-> "hi", sender |-> sender,
                     senderID |-> NilUUID, timestamp |-> 0, read |-> read,
                     metadata |-> NoMeta]]

\* the rows in the order of their insertion, each with an id of its own
Numbered(rows) == [k \in 1..Len(rows) |-> [rows[k] EXCEPT !.id = "r" \o ToString(k)]]

Stores ==
    {Numbered(Rows("A", "user", TRUE, r) \o Rows("B", "user", FALSE, ub)
                  \o Rows("A", "admin", FALSE, a) \o Rows("A", "user", FALSE, u)
                  \o Rows("B", "admin", FALSE, ab)) :
        <<u, r, a, ub, ab>> \in (0..MaxUnread) \X (0..MaxRead) \X (0..MaxAdmin)
                                    \X (0..1) \X (0..1)}

InitUnread ==
    /\ InitHub /\ InitCalls /\ InitWs /\ InitLLM /\ InitHandler /\ InitTasks /\ InitLock
    /\ users = {[id |-> "U0", source |-> Source, sourceID |-> "u1"]}
    /\ chats = {[id |-> "A", userID |-> "U0", updatedAt |-> 0, assignedTo |-> "none",
                 source |-> Source, botID |-> "b1", clientID |-> ClientKey],
                [id |-> "B", userID |-> "U0", updatedAt |-> 0, assignedTo |-> "none",
                 source |-> Source, botID |-> "b2", clientID |-> ClientKey]}
    /\ messages \in Stores
    /\ nextID = 1
    /\ now = 1
    /\ recentMessages = EmptyMap /\ sweep = "off" /\ hook = [i \in Hooks |-> NewHook]

UnreadStep ==
    UNCHANGED <<hubVars, call, wsReq, dedupVars, llmVars, handler, addTx, auto, lockVars>>

NextUnread ==
    \/ GetChatsCall /\ UnreadStep
    \/ \E chatID \in {"A", "B"} : MarkMessagesAsReadCall(chatID) /\ UnreadStep
    \/ \E chatID \in {"A", "B"} : \E sender \in {"user", "admin"} :
           AddMessageCall(chatID, sender) /\ UnreadStep

SpecUnread == InitUnread /\ [][NextUnread]_vars

(***************************************************************************)
(* The lock-based hub with Hub.mu made explicit: which goroutine holds the *)
(* mutex while it iterates, and where the eviction of a full queue runs.   *)
(***************************************************************************)
\* h.mu.Lock() returns: nobody holds the mutex
CanLock == mu.writer = "none" /\ mu.readers = {}

\* h.mu.RLock() returns: no writer holds the mutex
CanRLock == mu.writer = "none"

\* Run is in its select and the case it takes can lock the mutex
RunIdle == loop.pc = "select" /\ CanLock

\* a broadcast loop that evicts a full queue on the spot, under the lock:
\* close(client.send); delete(h.clients, client)
iterateEvictsInline(msg) ==
    LET disconnected == {c \in clients : ~CanSend(c)}
    IN  /\ send' = [c \in Conns |-> IF c \in clients /\ CanSend(c)
                                    THEN Append(send[c], msg) ELSE send[c]]
        /\ clients' = clients \ disconnected
        /\ closed' = [c \in Conns |-> closed[c] \/ c \in disconnected]
        /\ closes' = [c \in Conns |-> IF c \in disconnected THEN closes[c] + 1
                                      ELSE closes[c]]
        /\ loop' = [IdleLoop EXCEPT !.pc = "locked"]

\* broadcastMessage, the loop under h.mu.Lock(): a non-blocking send to every
\* member of clients; the members whose queue is full are only collected
iterate(msg) ==
    LET disconnected == {c \in clients : ~CanSend(c)}
    IN  /\ send' = [c \in Conns |-> IF c \in clients /\ CanSend(c)
                                    THEN Append(send[c], msg) ELSE send[c]]
        /\ loop' = [IdleLoop EXCEPT !.pc = "locked", !.disconnected = disconnected]
        /\ UNCHANGED <<clients, closed, closes>>

\* case msg := <-h.Broadcast: broadcastMessage locks and iterates
RunBroadcastLocked ==
    /\ ~panicked
    /\ RunIdle
    /\ mu' = [mu EXCEPT !.writer = "run"]
    /\ iterate(BroadcastFrame)
    /\ UNCHANGED <<adminsByID, widgetsByID, chatClients, stats, serve, readPump,
                   writePump, cleanups, chatSend, panicked, lastRegistered, caller>>

\* broadcastMessage: h.mu.Unlock()
RunBroadcastUnlock ==
    /\ loop.pc = "locked"
    /\ mu' = [mu EXCEPT !.writer = "none"]
    /\ loop' = [loop EXCEPT !.pc = "cleanup"]
    /\ UNCHANGED <<hubVars, caller>>

\* broadcastMessage after the unlock: cleanupClient for every collected
\* connection, then Run is back in its select
RunBroadcastCleanup ==
    /\ loop.pc = "cleanup"
    /\ cleanupClient(loop.disconnected)
    /\ loop' = IdleLoop
    /\ UNCHANGED <<clients, adminsByID, widgetsByID, chatClients, stats, send,
                   closed, closes, serve, readPump, writePump, chatSend, panicked,
                   lastRegistered, mu, caller>>

\* SendToAdmin: h.mu.RLock()
SendToAdminRLock(adminID) ==
    /\ ~panicked
    /\ caller.pc = "idle"
    /\ CanRLock
    /\ mu' = [mu EXCEPT !.readers = @ \cup {"caller"}]
    /\ caller' = [pc |-> "rlocked", to |-> adminID, c |-> NoClient]
    /\ UNCHANGED <<hubVars, loop>>

\* SendToAdmin under the read lock: the lookup and the select, whose default
\* case starts the goroutine of cleanupClient
SendToAdminLocked ==
    /\ caller.pc = "rlocked"
    /\ SendToAdmin(caller.to)
    /\ caller' = [caller EXCEPT !.pc = "return"]
    /\ UNCHANGED <<mu, loop>>

\* SendToAdmin returns: the deferred h.mu.RUnlock()
SendToAdminRUnlock ==
    /\ caller.pc = "return"
    /\ mu' = [mu EXCEPT !.readers = @ \ {"caller"}]
    /\ caller' = IdleCaller
    /\ UNCHANGED <<hubVars, loop>>

LockStep == UNCHANGED <<storeVars, call, now, wsReq, dedupVars, llmVars, handler, taskVars>>

\* Run takes the cases Register and Unregister only from its select, and
\* registerClient and unregisterClient lock the mutex themselves
NextLock ==
    \/ \E c \in Conns : RunIdle /\ ServeWs(c) /\ UNCHANGED lockVars /\ LockStep
    \/ RunBroadcastLocked /\ LockStep
    \/ RunBroadcastUnlock /\ LockStep
    \/ RunBroadcastCleanup /\ LockStep
    \/ \E c \in Conns : RunIdle /\ ReadPumpExit(c) /\ UNCHANGED lockVars /\ LockStep
    \/ \E c \in Conns : WritePumpDrain(c) /\ UNCHANGED lockVars /\ LockStep
    \/ \E c \in Conns : RunIdle /\ WritePumpExit(c) /\ UNCHANGED lockVars /\ LockStep
    \/ \E c \in Conns : RunIdle /\ CleanupUnregister(c) /\ UNCHANGED lockVars /\ LockStep
    \/ \E adminID \in AdminIDs : SendToAdminRLock(adminID) /\ LockStep
    \/ SendToAdminLocked /\ LockStep
    \/ SendToAdminRUnlock /\ LockStep

SpecLock == Init /\ [][NextLock]_vars

(***************************************************************************)
(* The request handlers on the widget connection of chat A, with a second  *)
(* chat B in the store that belongs to another visitor.                    *)
(***************************************************************************)
\* the frames whose handler reads a chat id from the payload
ScopeFrames ==
    [type : {"sendMessage", "markAsRead", "typing", "getWidgetMessages"},
     chatID : {"A", "B"}, content : {"hi"}]

InitScope ==
    /\ InitHub /\ InitCalls /\ InitWs /\ InitLLM /\ InitHandler /\ InitTasks /\ InitLock
    /\ users = {[id |-> "U0", source |-> Source, sourceID |-> "u1"],
                [id |-> "U9", source |-> Source, sourceID |-> "u2"]}
    /\ chats = {[id |-> "A", userID |-> "U0", updatedAt |-> 0, assignedTo |-> "none",
                 source |-> Source, botID |-> "b1", clientID |-> ClientKey],
                [id |-> "B", userID |-> "U9", updatedAt |-> 0, assignedTo |-> "none",
                 source |-> Source, botID |-> "b1", clientID |-> ClientKey]}
    /\ messages \in {<<>>, Numbered(Rows("B", "user", FALSE, 1))}
    /\ nextID = 1
    /\ now = 1
    /\ recentMessages = EmptyMap /\ sweep = "off" /\ hook = [i \in Hooks |-> NewHook]

NextScope ==
    \/ \E c \in HandlerConns : ServeWs(c) /\ HubStep
    \/ \E c \in HandlerConns : WritePumpDrain(c) /\ HubStep
    \/ \E f \in ScopeFrames :
           processWebSocketMessage("c3", f, PlanOf("ok"), TRUE) /\ HandlerStep
    \/ HandlerFanout("c3") /\ UNCHANGED storeVars /\ HandlerStep
    \/ HandlerReply("c3") /\ UNCHANGED storeVars /\ HandlerStep

SpecScope == InitScope /\ [][NextScope]_vars

(***************************************************************************)
(* The channel-driven hub (hub.go, first Hub): the maps are written by the *)
(* cases of Run, and read and written by SendToAdmin and SendToChat in the *)
(* goroutine of their caller.  There is no mutex and no chat index.  Each  *)
(* case of Run and each call from outside takes two steps, its first and   *)
(* its last access to the maps.                                            *)
(***************************************************************************)
StatusFrame(c) == [kind |-> "status", to |-> c]

\* chatID := client.chatID; if chatID == "" { chatID = client.id }
WidgetKey(c) == IF ChatID(c) = "" THEN ID(c) ELSE ChatID(c)

\* Run receives from one of its three channels
ChanCases == {"register", "unregister", "broadcast"}

\* the default case of the broadcast loop: close(client.send);
\* delete(h.clients, client)
evict(cs) ==
    /\ clients' = clients \ cs
    /\ UNCHANGED <<adminsByID, widgetsByID>>

\* close(c.send) for every c of cs
CloseAll(cs) ==
    /\ closed' = [c \in Conns |-> closed[c] \/ c \in cs]
    /\ closes' = [c \in Conns |-> IF c \in cs THEN closes[c] + 1 ELSE closes[c]]

\* case client := <-h.register, sent by ServeWs
ChanRegisterBegin(c) ==
    /\ ~panicked
    /\ loop.pc = "select"
    /\ serve[c] = "new"
    /\ loop' = [IdleLoop EXCEPT !.pc = "register", !.c = c]
    /\ UNCHANGED <<hubVars, mu, caller>>

ChanRegisterEnd ==
    /\ ~panicked
    /\ loop.pc = "register"
    /\ LET c == loop.c
       IN  /\ clients' = clients \cup {c}
           /\ adminsByID' = IF ClientType(c) = ClientTypeAdmin
                            THEN MapPut(adminsByID, ID(c), c) ELSE adminsByID
           /\ widgetsByID' = IF ClientType(c) = ClientTypeAdmin THEN widgetsByID
                             ELSE MapPut(widgetsByID, WidgetKey(c),
                                         MapGetSet(widgetsByID, WidgetKey(c)) \cup {c})
           /\ serve' = [serve EXCEPT ![c] = "registered"]
           /\ readPump' = [readPump EXCEPT ![c] = "run"]
           /\ writePump' = [writePump EXCEPT ![c] = "run"]
           /\ lastRegistered' = IF ClientType(c) = ClientTypeAdmin
                                THEN [lastRegistered EXCEPT ![ID(c)] = c]
                                ELSE lastRegistered
    /\ loop' = IdleLoop
    /\ UNCHANGED <<chatClients, stats, send, closed, closes, cleanups, chatSend,
                   panicked, mu, caller>>

\* ServeWs after the registration: hub.SendConnectionStatus(client, true), a
\* non-blocking send on the queue of the connection
ChanSendConnectionStatus(c) ==
    /\ ~panicked
    /\ serve[c] = "registered"
    /\ serve' = [serve EXCEPT ![c] = "open"]
    /\ panicked' = closed[c]
    /\ send' = IF ~closed[c] /\ CanSend(c)
               THEN [send EXCEPT ![c] = Append(@, StatusFrame(c))] ELSE send
    /\ UNCHANGED <<clients, adminsByID, widgetsByID, chatClients, stats, closed,
                   closes, readPump, writePump, cleanups, chatSend, lastRegistered,
                   lockVars>>

\* case client := <-h.unregister, sent by the deferred function of a pump
ChanUnregisterBegin(c, pump) ==
    /\ ~panicked
    /\ loop.pc = "select"
    /\ IF pump = "read"
       THEN /\ readPump[c] = "run"
            /\ readPump' = [readPump EXCEPT ![c] = "done"]
            /\ UNCHANGED writePump
       ELSE /\ writePump[c] = "run"
            /\ writePump' = [writePump EXCEPT ![c] = "done"]
            /\ UNCHANGED readPump
    /\ loop' = [IdleLoop EXCEPT !.pc = "unregister", !.c = c]
    /\ UNCHANGED <<clients, adminsByID, widgetsByID, chatClients, stats, send, closed,
                   closes, serve, cleanups, chatSend, panicked, lastRegistered,
                   mu, caller>>

ChanUnregisterEnd ==
    /\ ~panicked
    /\ loop.pc = "unregister"
    /\ LET c == loop.c
       IN  IF c \in clients
           THEN /\ clients' = clients \ {c}
                /\ CloseAll({c})
                /\ panicked' = closed[c]
                /\ adminsByID' = IF ClientType(c) = ClientTypeAdmin
                                 THEN MapDelete(adminsByID, ID(c)) ELSE adminsByID
                /\ widgetsByID' = IF ClientType(c) = ClientTypeAdmin THEN widgetsByID
                                  ELSE MapRemoveMember(widgetsByID, WidgetKey(c), c)
           ELSE UNCHANGED <<clients, closed, closes, panicked, adminsByID, widgetsByID>>
    /\ loop' = IdleLoop
    /\ UNCHANGED <<chatClients, stats, send, serve, readPump, writePump, cleanups,
                   chatSend, lastRegistered, mu, caller>>

\* case message := <-h.broadcast, sent by Hub.Broadcast
ChanBroadcastBegin ==
    /\ ~panicked
    /\ loop.pc = "select"
    /\ loop' = [IdleLoop EXCEPT !.pc = "broadcast"]
    /\ UNCHANGED <<hubVars, mu, caller>>

ChanBroadcastEnd ==
    /\ ~panicked
    /\ loop.pc = "broadcast"
    /\ LET full == {c \in clients : ~CanSend(c)}
       IN  /\ send' = [c \in Conns |-> IF c \in clients /\ CanSend(c)
                                       THEN Append(send[c], BroadcastFrame)
                                       ELSE send[c]]
           /\ CloseAll(full)
           /\ panicked' = (\E c \in full : closed[c])
           /\ evict(full)
    /\ loop' = IdleLoop
    /\ UNCHANGED <<chatClients, stats, serve, readPump, writePump, cleanups, chatSend,
                   lastRegistered, mu, caller>>

\* SendToAdmin and SendToChat are entered by a goroutine of a request
ChanCallBegin(op, to) ==
    /\ ~panicked
    /\ caller.pc = "idle"
    /\ caller' = [IdleCaller EXCEPT !.pc = op, !.to = to]
    /\ UNCHANGED <<hubVars, mu, loop>>

\* the runtime may stop the process when a map is read or written while
\* another goroutine writes it: fatal error: concurrent map read and map write
MapFault == IF loop.pc \in ChanCases /\ caller.pc # "idle" THEN BOOLEAN ELSE {FALSE}

\* SendToAdmin: the lookup, the non-blocking send, and in its default case
\* close(admin.send); delete(h.clients, admin); delete(h.adminsByID, adminID)
ChanSendToAdmin ==
    /\ ~panicked
    /\ caller.pc = "SendToAdmin"
    /\ LET c == AdminTarget(caller.to)
       IN  \E fault \in MapFault :
             IF fault \/ c = NoClient
             THEN /\ panicked' = fault
                  /\ UNCHANGED <<send, clients, adminsByID, closed, closes>>
             ELSE IF closed[c]
             THEN \* a send on a closed channel
                  /\ panicked' = TRUE
                  /\ UNCHANGED <<send, clients, adminsByID, closed, closes>>
             ELSE IF CanSend(c)
             THEN /\ send' = [send EXCEPT ![c] = Append(@, AdminFrame(caller.to))]
                  /\ UNCHANGED <<panicked, clients, adminsByID, closed, closes>>
             ELSE /\ CloseAll({c})
                  /\ clients' = clients \ {c}
                  /\ adminsByID' = MapDelete(adminsByID, caller.to)
                  /\ UNCHANGED <<send, panicked>>
    /\ caller' = IdleCaller
    /\ UNCHANGED <<widgetsByID, chatClients, stats, serve, readPump, writePump, cleanups,
                   chatSend, lastRegistered, mu, loop>>

\* SendToChat: the widgets of the chat, a non-blocking send to each, and in
\* the default case close(w.send); delete(h.clients, w); delete(widgets, w)
ChanSendToChat ==
    /\ ~panicked
    /\ caller.pc = "SendToChat"
    /\ LET widgets == MapGetSet(widgetsByID, caller.to)
           full == {w \in widgets : ~CanSend(w)}
       IN  \E fault \in MapFault :
             IF fault \/ widgets = {}
             THEN /\ panicked' = fault
                  /\ UNCHANGED <<send, clients, widgetsByID, closed, closes>>
             ELSE IF \E w \in widgets : closed[w]
             THEN /\ panicked' = TRUE
                  /\ UNCHANGED <<send, clients, widgetsByID, closed, closes>>
             ELSE /\ send' = [w \in Conns |-> IF w \in widgets /\ CanSend(w)
                                              THEN Append(send[w], ChatFrame(caller.to))
                                              ELSE send[w]]
                  /\ CloseAll(full)
                  /\ clients' = clients \ full
                  /\ widgetsByID' = IF widgets \ full = {}
                                    THEN MapDelete(widgetsByID, caller.to)
                                    ELSE MapPut(widgetsByID, caller.to, widgets \ full)
                  /\ UNCHANGED panicked
    /\ caller' = IdleCaller
    /\ UNCHANGED <<adminsByID, chatClients, stats, serve, readPump, writePump, cleanups,
                   chatSend, lastRegistered, mu, loop>>

NextChan ==
    \/ \E c \in HandlerConns : ChanRegisterBegin(c) /\ LockStep
    \/ ChanRegisterEnd /\ LockStep
    \/ \E c \in HandlerConns : ChanSendConnectionStatus(c) /\ LockStep
    \/ \E c \in HandlerConns : \E pump \in {"read", "write"} :
           ChanUnregisterBegin(c, pump) /\ LockStep
    \/ ChanUnregisterEnd /\ LockStep
    \/ ChanBroadcastBegin /\ LockStep
    \/ ChanBroadcastEnd /\ LockStep
    \/ \E c \in HandlerConns : WritePumpDrain(c) /\ UNCHANGED lockVars /\ LockStep
    \/ \E adminID \in AdminIDs : ChanCallBegin("SendToAdmin", adminID) /\ LockStep
    \/ \E chatID \in ChatIDs : ChanCallBegin("SendToChat", chatID) /\ LockStep
    \/ ChanSendToAdmin /\ LockStep
    \/ ChanSendToChat /\ LockStep

SpecChan == Init /\ [][NextChan]_vars

(***************************************************************************)
(* The unbuffered channels Register, Unregister and Broadcast of the       *)
(* lock-based hub: a sender waits in its send until Hub.Run receives.      *)
(***************************************************************************)
\* ServeWs: WebSocketHub.Register <- client, waiting for Run
ServeWsSend(c) ==
    /\ ~panicked
    /\ serve[c] = "new"
    /\ serve' = [serve EXCEPT ![c] = "registering"]
    /\ UNCHANGED <<clients, adminsByID, widgetsByID, chatClients, stats, send, closed,
                   closes, readPump, writePump, cleanups, chatSend, panicked,
                   lastRegistered>>

\* Run: case c := <-h.Register; ServeWs goes on and starts the pumps
RunRegister(c) ==
    /\ ~panicked
    /\ serve[c] = "registering"
    /\ registerClient(c)
    /\ serve' = [serve EXCEPT ![c] = "open"]
    /\ readPump' = [readPump EXCEPT ![c] = "run"]
    /\ writePump' = [writePump EXCEPT ![c] = "run"]
    /\ lastRegistered' = IF ClientType(c) = ClientTypeAdmin
                         THEN [lastRegistered EXCEPT ![ID(c)] = c]
                         ELSE lastRegistered
    /\ UNCHANGED <<send, closed, closes, cleanups, chatSend, panicked>>

\* a pump returns: its deferred function is in c.hub.Unregister <- c
PumpSend(c, pump) ==
    /\ ~panicked
    /\ IF pump = "read"
       THEN /\ readPump[c] = "run" /\ handler[c].pc = "idle"
            /\ readPump' = [readPump EXCEPT ![c] = "unregistering"]
            /\ UNCHANGED writePump
       ELSE /\ writePump[c] = "run"
            /\ writePump' = [writePump EXCEPT ![c] = "unregistering"]
            /\ UNCHANGED readPump
    /\ UNCHANGED <<clients, adminsByID, widgetsByID, chatClients, stats, send, closed,
                   closes, serve, cleanups, chatSend, panicked, lastRegistered>>

\* Run: case c := <-h.Unregister from a pump; the pump goes on to its end
RunUnregister(c, pump) ==
    /\ ~panicked
    /\ unregisterClient(c)
    /\ IF pump = "read"
       THEN /\ readPump[c] = "unregistering"
            /\ readPump' = [readPump EXCEPT ![c] = "done"]
            /\ UNCHANGED writePump
       ELSE /\ writePump[c] = "unregistering"
            /\ writePump' = [writePump EXCEPT ![c] = "done"]
            /\ UNCHANGED readPump
    /\ UNCHANGED <<send, serve, cleanups, chatSend, lastRegistered>>

\* the sendMessage request of a connection to chat A, stored without error
LiveFrame == [type |-> "sendMessage", chatID |-> "A", content |-> "hi"]

\* the handler of c is in h.Broadcast <- message
InBroadcast(c) ==
    handler[c].pc = "fanout" /\ Head(handler[c].calls) = "BroadcastMessage"

NextLive ==
    \/ \E c \in HandlerConns : ServeWsSend(c) /\ HubStep
    \/ \E c \in HandlerConns : RunRegister(c) /\ HubStep
    \/ \E c \in HandlerConns : \E pump \in {"read", "write"} : PumpSend(c, pump) /\ HubStep
    \/ \E c \in HandlerConns : \E pump \in {"read", "write"} :
           RunUnregister(c, pump) /\ HubStep
    \/ BroadcastMessage /\ HubStep
    \/ \E c \in HandlerConns : WritePumpDrain(c) /\ HubStep
    \/ \E c \in HandlerConns : CleanupUnregister(c) /\ HubStep
    \/ \E c \in HandlerConns :
           processWebSocketMessage(c, LiveFrame, PlanOf("ok"), TRUE) /\ HandlerStep
    \/ \E c \in HandlerConns : HandlerFanout(c) /\ UNCHANGED storeVars /\ HandlerStep
    \/ \E c \in HandlerConns : HandlerReply(c) /\ UNCHANGED storeVars /\ HandlerStep

\* Run never leaves its loop: a send that waits on one of its channels is
\* received (channel senders are served in their order of arrival)
SpecLive ==
    /\ InitHandlers
    /\ [][NextLive]_vars
    /\ \A c \in HandlerConns :
           /\ WF_vars(RunRegister(c) /\ HubStep)
           /\ WF_vars(RunUnregister(c, "read") /\ HubStep)
           /\ WF_vars(RunUnregister(c, "write") /\ HubStep)
           /\ WF_vars(CleanupUnregister(c) /\ HubStep)
           /\ WF_vars(HandlerFanout(c) /\ UNCHANGED storeVars /\ HandlerStep)

(***************************************************************************)
(* Properties of the hub.                                                  *)
(***************************************************************************)
\* a frame was appended to c's queue in this step
Enqueued(c) == Len(send'[c]) = Len(send[c]) + 1

\* unregisterClient(c) was called in this step, by a pump or by an eviction
UnregisterCalled(c) ==
    \/ readPump[c] = "run" /\ readPump'[c] = "done"
    \/ writePump[c] = "run" /\ writePump'[c] = "done"
    \/ cleanups'[c] = cleanups[c] - 1

\* C1: routing isolation.  A frame sent with SendToChat(A) is never on the
\* outbound queue of a connection whose own chat id is different from A.
C1_RoutingIsolation ==
    \A c \in Conns : \A i \in 1..Len(send[c]) :
        send[c][i].kind = "chat" => send[c][i].to = UUIDString(ChatID(c))

\* SendToChat("A") reached the widget of chat A while a connection of another
\* chat id (the admin c1) was registered and got nothing
C1_Witness ==
    /\ send["c3"] = <<ChatFrame("A")>>
    /\ "c1" \in clients
    /\ send["c1"] = <<>>

\* C2: at-most-one admin reachability.  Whenever SendToAdmin(a) enqueues a
\* frame, the receiving connection is the one registered last under a; a
\* connection that was replaced is never delivered to.
C2_LatestAdminOnly ==
    [][\A c \in Conns : \A a \in AdminIDs :
          (Enqueued(c) /\ send'[c][Len(send'[c])] = AdminFrame(a))
              => c = lastRegistered[a]]_vars

\* c1 then c2 were registered under a1, both are still registered, and
\* SendToAdmin("a1") has delivered to c2 and not to c1
C2_Witness ==
    /\ lastRegistered["a1"] = "c2"
    /\ {"c1", "c2"} \subseteq clients
    /\ send["c2"] = <<AdminFrame("a1")>>
    /\ send["c1"] = <<>>

\* C3: idempotent unregistration.  An unregister call on a connection that was
\* already unregistered (its queue is closed) does not panic, closes nothing
\* more, and leaves the global set and the routing indexes as they were.
C3_IdempotentUnregister ==
    [][\A c \in Conns :
          (UnregisterCalled(c) /\ closes[c] >= 1)
              => /\ ~panicked'
                 /\ closes'[c] = 1
                 /\ UNCHANGED <<clients, adminsByID, widgetsByID, chatClients>>]_vars

\* C4: connection counts match.  ActiveConnections equals the number of
\* connections in the global set and is never negative; every connection is
\* counted as disconnected at most once.
C4_CountsMatch ==
    /\ stats.ActiveConnections = Cardinality(clients)
    /\ stats.ActiveConnections >= 0
    /\ stats.DisconnectedClients <= stats.TotalConnections

\* C5: non-blocking broadcast.  A broadcast handed to the hub can always be
\* carried out to its end, whatever the state of the recipients' queues: no
\* full queue keeps the broadcaster waiting.
C5_BroadcastNeverBlocks == ~panicked => ENABLED BroadcastMessage

\* all three connections are registered, the widget's queue is full and nobody
\* drains it; a broadcast reached the two admins and scheduled the widget's
\* eviction instead of waiting for it
C5_Witness ==
    /\ clients = Conns
    /\ send["c3"] = <<ChatFrame("A")>>
    /\ cleanups["c3"] = 1
    /\ send["c1"] = <<BroadcastFrame>>
    /\ send["c2"] = <<BroadcastFrame>>

\* the entries of the admin index, of the widget index and of the chat index
\* that hold connection c
AdminEntries(c) == {k \in DOMAIN adminsByID : adminsByID[k] = c}

WidgetEntries(c) == {k \in DOMAIN widgetsByID : c \in widgetsByID[k]}

ChatEntries(c) == {k \in DOMAIN chatClients : c \in chatClients[k]}

\* C14: a connection of the global set is in at most one of the two kind
\* indexes, under at most one key of it, and under at most one key of the
\* chat index; every member of the chat index is in the global set
C14_IndexConsistency ==
    /\ \A c \in clients :
           /\ Cardinality(AdminEntries(c)) + Cardinality(WidgetEntries(c)) <= 1
           /\ Cardinality(ChatEntries(c)) <= 1
    /\ \A k \in DOMAIN chatClients : chatClients[k] \subseteq clients

\* a widget and an admin are indexed while an earlier admin connection has
\* been unregistered
C14_Witness ==
    /\ {"c2", "c3"} \subseteq clients
    /\ AdminEntries("c2") # {} /\ WidgetEntries("c3") # {} /\ ChatEntries("c3") # {}
    /\ "c1" \notin clients /\ closed["c1"]

\* C15: only widget connections are members of the chat index, and a frame
\* sent with SendToChat is on the queue of widget connections only, whatever
\* the chat id
C15_SendToChatWidgetsOnly ==
    /\ \A k \in DOMAIN chatClients : \A c \in chatClients[k] :
           ClientType(c) = ClientTypeWidget
    /\ \A c \in Conns : \A i \in 1..Len(send[c]) :
           send[c][i].kind = "chat" => ClientType(c) = ClientTypeWidget

\* C17: a connection whose queue was found full by broadcastMessage,
\* SendToChat or SendToAdmin is eventually unregistered: out of the global
\* set and of every index, its queue closed
C17_FullQueueEvicted ==
    \A c \in HandlerConns :
        (cleanups[c] > 0)
            ~> (/\ c \notin clients /\ closed[c]
                /\ AdminEntries(c) = {} /\ WidgetEntries(c) = {} /\ ChatEntries(c) = {})

(***************************************************************************)
(* Properties of the request handlers.                                     *)
(***************************************************************************)
\* C16: a handler that is about to answer its connection with SendJSON or
\* SendError is never kept waiting by the queue of the connection
C16_DirectReplyNeverBlocks ==
    \A c \in HandlerConns :
        (handler[c].pc = "reply" /\ ~panicked) => ENABLED HandlerReply(c)

\* the handler of connection c takes a step
HandlerActs(c) == handler'[c] # handler[c]

\* nothing but the queue of c, which gets one error envelope more
OnlyErrorEnvelope(c) ==
    /\ send' = [send EXCEPT ![c] = Append(@, [kind |-> "error", to |-> c])]
    /\ UNCHANGED <<clients, adminsByID, widgetsByID, chatClients, stats, closed,
                   panicked, cleanups, storeVars, history>>
    /\ c \in clients /\ ~closed[c]

\* C18: the handling of a frame that is not JSON or has an unknown type
\* sends one error envelope to its connection and changes nothing else: no
\* other queue, no index, nothing in the store, and the connection stays
\* registered with its queue open
C18_BadEnvelopeOnlyErrorReply ==
    [][\A c \in HandlerConns :
          /\ (HandlerActs(c) /\ handler'[c].reply \in {"invalid_json", "unknown_type"})
                 => UNCHANGED <<hubVars, storeVars, history>>
          /\ (HandlerActs(c) /\ handler[c].reply \in {"invalid_json", "unknown_type"})
                 => OnlyErrorEnvelope(c)]_vars

\* C19: the handling of a request with a missing or invalid field sends one
\* error envelope to its connection and has no other effect: no message is
\* stored, no read flag changes, nothing is fanned out, no responder runs
C19_InvalidRequestNoEffect ==
    [][\A c \in HandlerConns :
          /\ (HandlerActs(c) /\ handler'[c].reply \in {"missing_fields", "invalid_uuid"})
                 => UNCHANGED <<hubVars, storeVars, history>>
          /\ (HandlerActs(c) /\ handler[c].reply \in {"missing_fields", "invalid_uuid"})
                 => OnlyErrorEnvelope(c)]_vars

\* C20: a handler returns to ReadMessage only by the step that puts its
\* answer, an acknowledgment or an error envelope, on the queue of its
\* connection
C20_EveryRequestAnswered ==
    [][\A c \in HandlerConns :
          (HandlerActs(c) /\ handler'[c].pc \in {"idle", "panic"})
              => /\ handler[c].pc = "reply"
                 /\ send'[c] = Append(send[c], ReplyFrame(c, handler[c].reply))]_vars

(***************************************************************************)
(* Properties of GetOrCreateChat.                                          *)
(***************************************************************************)
\* C6: chat uniqueness.  Calls of GetOrCreateChat with the same (userId,
\* source, botId, clientId) leave one chat row for it, and every caller that
\* got a chat got the same one.
C6_ChatUniqueness ==
    /\ \A c1 \in chats : \A c2 \in chats :
          (c1.userID = c2.userID /\ c1.source = c2.source /\ c1.botID = c2.botID
             /\ c1.clientID = c2.clientID) => c1.id = c2.id
    /\ \A p \in Callers : \A q \in Callers :
          (call[p].pc = "done" /\ call[q].pc = "done" /\ call[p].req = call[q].req
             /\ call[p].result # "error" /\ call[q].result # "error")
              => call[p].result = call[q].result

(***************************************************************************)
(* Properties of the deduplication of TelegramWebhook.                     *)
(***************************************************************************)
SamePair(i, j) == hook[i].userID = hook[j].userID /\ hook[i].content = hook[j].content

\* the submissions whose fingerprint was registered, at time hook[i].at
Registered(i) == hook[i].pc \in {"chat", "add"} \/ hook[i].result \in {"message processed", "error"}

PersistedOf(userID, content) ==
    {k \in 1..Len(messages) :
        /\ messages[k].sender = "user"
        /\ messages[k].senderID = (IF IsUUID(userID) THEN userID ELSE NewSHA1(userID))
        /\ messages[k].content = content}

\* C7: of two submissions of the same (senderId, content) that arrive within
\* the dedup TTL of each other, one is persisted and the other is answered
\* duplicate_ignored.  Stated for the plainest case: the first submission
\* was answered "message processed" before the second arrived, and storage
\* reported no error to the second.
C7_DedupWindow ==
    \A i \in Hooks : \A j \in Hooks :
        (/\ i # j /\ Done(i) /\ Done(j)
         /\ SamePair(i, j)
         /\ hook[i].result = "message processed"
         /\ i \in hook[j].after
         /\ hook[j].result # "error"
         /\ hook[j].at - hook[i].at < DedupTTL)
            => /\ hook[j].result = "duplicate_ignored"
               /\ Cardinality(PersistedOf(hook[i].userID, hook[i].content)) = 1

MessagesOf(j) == {i \in 1..Len(messages) : messages[i].id = wsReq[j].messageID}

\* C9: when the insert of AddMessage meets a partition conflict on the first
\* two attempts and the third attempt would succeed, AddMessage succeeds and
\* exactly one message is persisted.
C9_RetryThenSuccess ==
    \A j \in WsRequests :
        (/\ wsReq[j].pc = "done"
         /\ wsReq[j].plan # NoPlan
         /\ ChatExists(wsReq[j].payload.chatID)
         /\ wsReq[j].plan[1] = "partition_conflict"
         /\ wsReq[j].plan[2] = "partition_conflict"
         /\ wsReq[j].plan[3] = "ok")
            => /\ wsReq[j].reply = "messageSent"
               /\ Cardinality(MessagesOf(j)) = 1

C11_AssignedChatGetsNoBotReply ==
    \A i \in Hooks :
        call[i].result \in hook[i].assigned => hook[i].botMessageID = "none"

(***************************************************************************)
(* Properties of the self-identification filter.                           *)
(***************************************************************************)
\* the reply has a denylisted term in it, in whatever letter case
HasForbiddenTerm(s) ==
    \E n \in 1..Len(forbiddenTerms) : \E k \in 1..Len(s) :
        /\ k + Len(forbiddenTerms[n]) - 1 <= Len(s)
        /\ \A m \in 1..Len(forbiddenTerms[n]) :
               ToLowerRune(s[k + m - 1]) = forbiddenTerms[n][m]

\* C12: a reply of the model that contains a denylisted term is escalated,
\* and the content of the bot message is the fixed hand-off sentence alone
C12_ForbiddenTermEscalates ==
    (filt.pc = "done" /\ HasForbiddenTerm(filt.rawResp))
        => (filt.escalate /\ filt.content = HandOffSentence)

\* a reply with a term in capitals inside a longer text has been filtered
C12_Witness ==
    /\ filt.pc = "done"
    /\ filt.rawResp = <<"i", " ", "A", "i", "a">>
    /\ filt.escalate

\* C13: a reply of the model that contains no denylisted term is not
\* escalated, and its content is the reply itself with the white space
\* trimmed at both ends
C13_CleanReplyUnchanged ==
    (filt.pc = "done" /\ ~HasForbiddenTerm(filt.rawResp))
        => (~filt.escalate /\ filt.content = TrimSpace(filt.rawResp))

(***************************************************************************)
(* Properties of the AddMessage transaction.                               *)
(***************************************************************************)
\* C21: AddMessage is atomic with respect to the chat timestamp.  A step adds
\* a message row to the table exactly when it sets updated_at of the owning
\* chat to the timestamp of that row, both by the commit of one AddMessage
\* call that returns the message; a call that returns an error (missing chat,
\* failed statement, failed commit, timeout) leaves the messages and the
\* chats as they were.
C21_AddMessageAtomic ==
    [][/\ messages' # messages =>
           /\ Len(messages') = Len(messages) + 1
           /\ SubSeq(messages', 1, Len(messages)) = messages
           /\ LET m == messages'[Len(messages')]
              IN  /\ \E c \in chats' : c.id = m.chatID /\ c.updatedAt = m.timestamp
                  /\ \E p \in AddCallers :
                         /\ addTx[p].pc = "commit" /\ addTx'[p].pc = "done"
                         /\ addTx'[p].err = "nil" /\ addTx[p].newMessage = m
       /\ chats' # chats => messages' # messages
       /\ \A p \in AddCallers :
              (addTx[p].pc # "done" /\ addTx'[p].pc = "done" /\ addTx'[p].err # "nil")
                  => (messages' = messages /\ chats' = chats)]_vars

\* one call has committed its message and the timestamp of chat A, another
\* failed at its commit, after its INSERT and UPDATE, and left nothing
C21_Witness ==
    \E p, q \in AddCallers :
        /\ addTx[p].pc = "done" /\ addTx[p].err = "nil"
        /\ addTx[q].pc = "done" /\ addTx[q].failedAt = "commit"
        /\ addTx[q].newMessage.timestamp > addTx[p].newMessage.timestamp
        /\ Len(messages) = 1 /\ messages[1] = addTx[p].newMessage
        /\ \E c \in chats : c.id = "A" /\ c.updatedAt = addTx[p].newMessage.timestamp

\* C22: content and sender are required by AddMessage.  No stored message has
\* an empty content or an empty sender, whichever path called AddMessage.
C22_ContentAndSenderRequired ==
    \A k \in 1..Len(messages) : messages[k].content # "" /\ messages[k].sender # ""

(***************************************************************************)
(* Properties of the auto-responder on its two paths.                      *)
(***************************************************************************)
\* C23: the request that delivers a user message does not wait for the bot
\* reply.  While ProcessMessage is in its typing delay or in the call of the
\* model for a submission of the webhook or for a sendMessage request, that
\* request has already been answered.
C23_RequestDoesNotWaitForReply ==
    /\ \A i \in Hooks : hook[i].pc = "generate" => hook[i].result # "none"
    /\ \A j \in WsRequests : auto[j].pc = "generate" => wsReq[j].reply # "none"

\* the message with this id is in the table
Stored(messageID) == \E k \in 1..Len(messages) : messages[k].id = messageID

\* C24: a failed or timed-out call of the model yields no bot reply and no
\* error.  The step in which ProcessMessage returns its error stores no
\* message; the webhook still answers 200 "message processed" and sends the
\* notification of the user message without a bot message; the goroutine of
\* a sendMessage request hands nothing to the hub and leaves the request,
\* which was acknowledged with messageSent, as it is; the user message stays
\* stored.
C24_GenerationErrorIsSilent ==
    [][/\ \A i \in Hooks :
              (hook[i].pc = "generate" /\ hook'[i].llm \in {"ctx_done", "llm_error"}) =>
                  /\ messages' = messages
                  /\ Stored(hook[i].messageID)
                  /\ hook'[i].result = "message processed"
                  /\ hook'[i].botMessageID = "none"
                  /\ hook'[i].calls =
                         <<ChatNotification(call[i].result, hook[i].messageID, "none")>>
       /\ \A j \in WsRequests :
              (auto[j].pc = "generate" /\ auto'[j].llm \in {"ctx_done", "llm_error"}) =>
                  /\ messages' = messages
                  /\ Stored(wsReq[j].messageID)
                  /\ wsReq' = wsReq
                  /\ wsReq[j].reply = "messageSent"
                  /\ auto'[j].calls = <<>>
                  /\ auto'[j].botMessageID = "none"]_vars

\* the call of the model failed for a submission of the webhook and timed
\* out for a sendMessage request: the two user messages are all that is stored
C24_Witness ==
    /\ hook[1].pc = "done" /\ hook[1].llm = "llm_error"
    /\ auto[1].pc = "done" /\ auto[1].llm = "ctx_done"
    /\ Len(messages) = 2
    /\ \A k \in 1..2 : messages[k].sender = "user"

\* the stored row with this id
Row(messageID) == messages[CHOOSE k \in 1..Len(messages) : messages[k].id = messageID]

\* the bot replies that were stored, with the calls of the hub made for them
BotReplies ==
    {[id |-> hook[i].botMessageID, calls |-> Range(hook[i].calls)] :
        i \in {h \in Hooks : hook[h].pc = "done" /\ hook[h].botMessageID # "none"}}
    \cup
    {[id |-> auto[j].botMessageID, calls |-> Range(auto[j].calls)] :
        j \in {r \in WsRequests : auto[r].pc = "done" /\ auto[r].botMessageID # "none"}}

\* C25: whenever a bot reply is stored with needEscalation set, on the path
\* of the webhook as on the path of sendMessage, a chat_escalation frame is
\* broadcast in addition.
C25_EscalationNoticeBroadcast ==
    \A b \in BotReplies :
        "needEscalation" \in Row(b.id).metadata =>
            \E x \in b.calls : x.op = "BroadcastMessage" /\ x.type = "chat_escalation"

\* C26: every bot reply that was generated and stored is a message of sender
\* "admin" with the nil UUID as sender id, and it is delivered as a message of
\* an operator is: to the connections of its chat by SendToChat and to
\* everyone by BroadcastMessage.
C26_BotReplyFanOut ==
    \A b \in BotReplies :
        /\ Row(b.id).sender = "admin"
        /\ Row(b.id).senderID = NilUUID
        /\ \E x \in b.calls : x.op = "SendToChat" /\ x.chatID = Row(b.id).chatID
        /\ \E x \in b.calls : x.op = "BroadcastMessage" /\ x.type = "new_message"

\* C27: a stored message has needEscalation set in its metadata only if the
\* auto-responder wrote it, never because the client sent the key.
C27_EscalationOnlyByResponder ==
    \A k \in 1..Len(messages) :
        "needEscalation" \in messages[k].metadata =>
            \E b \in BotReplies : b.id = messages[k].id

(***************************************************************************)
(* Properties of the read flags.                                           *)
(***************************************************************************)
\* the rows of chatID written by sender whose read flag is read
RowsWith(chatID, sender, read) ==
    {k \in 1..Len(messages) :
        /\ messages[k].chatID = chatID
        /\ messages[k].sender = sender
        /\ messages[k].read = read}

\* C28: the unreadCount that GetChats projects for a chat is the number of
\* its messages of sender "user" whose read flag is false, whatever else the
\* chat and the other chats hold; the list GetChats returned is that
\* projection; right after MarkMessagesAsRead on a chat it is 0 for that chat.
C28_UnreadCount ==
    /\ \A e \in GetChats : e.unreadCount = Cardinality(RowsWith(e.id, "user", FALSE))
    /\ view.op = "GetChats" => view.list = GetChats
    /\ view.op = "MarkMessagesAsRead" =>
           \A e \in GetChats : e.id = view.chatID => e.unreadCount = 0

\* GetChats has returned 5 for chat A, which holds 5 unread messages of its
\* user and 2 messages of operators
C28_Witness ==
    /\ view.op = "GetChats"
    /\ [id |-> "A", unreadCount |-> 5] \in view.list
    /\ Cardinality(RowsWith("A", "user", FALSE)) = 5
    /\ Cardinality(RowsWith("A", "admin", FALSE)) = 2

\* C29: MarkMessagesAsRead on a chat sets read on the unread messages of
\* sender "user" of that chat and changes nothing else: every other row,
\* those of operators in the chat and those of other chats among them, the
\* number of rows, the chats and the users stay as they were.
C29_MarkAsReadFrame ==
    [][(view'.op = "MarkMessagesAsRead" /\ (view' # view \/ messages' # messages)) =>
           /\ Len(messages') = Len(messages)
           /\ \A k \in 1..Len(messages) :
                  messages'[k] =
                      IF /\ messages[k].chatID = view'.chatID
                         /\ messages[k].sender = "user"
                         /\ messages[k].read = FALSE
                      THEN [messages[k] EXCEPT !.read = TRUE]
                      ELSE messages[k]
           /\ chats' = chats /\ users' = users]_vars

\* after MarkMessagesAsRead on chat A its 5 messages of the user are read,
\* its 2 messages of operators and the message of the user of chat B are not
C29_Witness ==
    /\ view.op = "MarkMessagesAsRead" /\ view.chatID = "A"
    /\ Cardinality(RowsWith("A", "user", TRUE)) = 5
    /\ RowsWith("A", "user", FALSE) = {}
    /\ Cardinality(RowsWith("A", "admin", FALSE)) = 2
    /\ RowsWith("B", "user", FALSE) # {}

(***************************************************************************)
(* Use of a connection after its unregistration.                           *)
(***************************************************************************)
\* C30: a connection is never used after unregistration.  Once the queue of a
\* connection is closed, no operation is on its way to put a frame on it:
\* the handler of the connection is not about to send its answer or its
\* error envelope, and the connection is not in the copy of the members of a
\* chat that SendToChat is sending to.  (BroadcastMessage and SendToAdmin
\* pick their recipients under the lock, in the step that sends.)
C30_NoUseAfterUnregister ==
    \A c \in Conns :
        closed[c] =>
            /\ handler[c].pc # "reply"
            /\ chatSend.active => c \notin chatSend.clients

(***************************************************************************)
(* Properties of the hub: replaced connections, eviction, index agreement. *)
(***************************************************************************)
\* C31: when a connection that was replaced under its admin identity is
\* unregistered (its own pump ends), the connection registered last under
\* that identity stays in the admin index, so that SendToAdmin still finds
\* it
C31_ReplacedAdminLeavesLatest ==
    [][\A c \in Conns : \A a \in AdminIDs :
          (/\ UnregisterCalled(c)
           /\ lastRegistered[a] # NoClient
           /\ c # lastRegistered[a]
           /\ AdminTarget(a) = lastRegistered[a])
              => (a \in DOMAIN adminsByID' /\ adminsByID'[a] = lastRegistered[a])]_vars

\* C32: a connection leaves the registry (and its queue is closed) only in a
\* step of the hub loop taken from its select while nobody holds the mutex:
\* never in a step of a goroutine that holds it for an iteration or a lookup.
\* A step that finds a queue full leaves the registry and the queue as they
\* are.
C32_EvictionOutsideIterationLock ==
    [][\A c \in Conns :
          /\ (c \in clients /\ c \notin clients') \/ (closed'[c] # closed[c])
                 => /\ mu.writer = "none" /\ mu.readers = {}
                    /\ loop.pc = "select"
                    /\ UnregisterCalled(c)
          /\ (cleanups'[c] > cleanups[c] \/ c \in loop'.disconnected \ loop.disconnected)
                 => UNCHANGED <<clients, adminsByID, widgetsByID, chatClients, closed>>]_vars

\* the widget's queue was found full by a broadcast; the widget was evicted by
\* the goroutine of cleanupClient while both its pumps were still running
C32_Witness ==
    /\ "c3" \notin clients /\ closed["c3"]
    /\ readPump["c3"] = "run" /\ writePump["c3"] = "run"
    /\ send["c3"] # <<>>
    /\ CanLock /\ loop.pc = "select"

\* the widget connections recorded under chat k in an index of sets
WidgetsOf(m, k) == {c \in MapGetSet(m, k) : ClientType(c) = ClientTypeWidget}

C39_DuplicateOnlyIfPersisted ==
    \A j \in Hooks :
        (/\ hook[j].result = "duplicate_ignored"
         /\ hook[j].after = Hooks \ {j})
            => PersistedOf(hook[j].userID, hook[j].content) # {}

(***************************************************************************)
(* Properties of the request handlers: the chat of a widget.               *)
(***************************************************************************)
\* C38: a widget connection acts on its own chat only.  A step of the handler
\* of a widget connection leaves the messages of every other chat as they
\* are (none added, none marked read), and the SendToChat it is about to make
\* is for the chat the connection was registered under.
C38_WidgetConfinedToItsChat ==
    [][\A c \in Conns :
          (ClientType(c) = ClientTypeWidget /\ handler'[c] # handler[c]) =>
              /\ \A k \in 1..Len(messages') :
                     messages'[k].chatID # ChatID(c)
                         => (k <= Len(messages) /\ messages'[k] = messages[k])
              /\ (handler'[c].pc = "fanout" /\ Head(handler'[c].calls) = "SendToChat")
                     => handler'[c].chatID = ChatID(c)]_vars

(***************************************************************************)
(* Properties of the auto-responder: generations and history of a chat.    *)
(***************************************************************************)
\* the invocations of ProcessMessage on chatID that are between the append
\* of the user turn and the return of GenerateResponse
Generating(chatID) ==
    {[by |-> "TelegramWebhook", n |-> i] :
        i \in {k \in Hooks : hook[k].pc = "generate" /\ call[k].result = chatID}}
    \cup {[by |-> "processAutoResponse", n |-> j] :
        j \in {k \in WsRequests : auto[k].pc = "generate"
                                    /\ wsReq[k].payload.chatID = chatID}}

\* C36: for each chat the responder is Idle or Generating: at most one
\* invocation has a call of the language model in flight for the chat
C36_OneGenerationPerChat ==
    \A chatID \in {c.id : c \in chats} : Cardinality(Generating(chatID)) <= 1

\* C37: the history of a chat is the system prompt followed by strictly
\* alternating turns, user first
C37_HistoryAlternates ==
    \A chatID \in DOMAIN history :
        LET hist == history[chatID]
        IN  /\ Len(hist) >= 1 /\ hist[1][1] = "system"
            /\ \A k \in 2..Len(hist) :
                   hist[k][1] = (IF k % 2 = 0 THEN "user" ELSE "assistant")

(***************************************************************************)
(* Properties of the channel-driven hub.                                   *)
(***************************************************************************)
\* C33: the routing maps are only touched under the mutex or inside the hub
\* loop.  No goroutine is inside SendToAdmin or SendToChat, between its
\* first and its last access to the maps, while the hub loop is inside a
\* case that writes them.
C33_MapsNeverSharedUnsynchronized ==
    ~(loop.pc \in ChanCases /\ caller.pc \in {"SendToAdmin", "SendToChat"})

\* C34: a connection evicted for a full queue is gone from the kind indexes
\* too: no entry of the admin index or of the widget index holds a
\* connection whose queue is closed
C34_NoClosedQueueIndexed ==
    /\ \A k \in DOMAIN adminsByID : ~closed[adminsByID[k]]
    /\ \A k \in DOMAIN widgetsByID : \A c \in widgetsByID[k] : ~closed[c]

(***************************************************************************)
(* Liveness of the channels of the hub.                                    *)
(***************************************************************************)
\* C35: every send that waits on Register, Unregister or Broadcast is
\* received: a connection in its registration gets registered, a pump in its
\* deferred unregistration gets to its end, a scheduled eviction is carried
\* out, and a handler in BroadcastMessage gets past it
C35_ChannelSendsReceived ==
    \A c \in HandlerConns :
        /\ (serve[c] = "registering") ~> (serve[c] = "open")
        /\ (readPump[c] = "unregistering") ~> (readPump[c] = "done")
        /\ (writePump[c] = "unregistering") ~> (writePump[c] = "done")
        /\ (cleanups[c] > 0) ~> (cleanups[c] = 0)
        /\ InBroadcast(c) ~> ~InBroadcast(c)

====
